---- MODULE Spec2Model ----
(***************************************************************************)
(* Rubric scoring and rank aggregation of the LLM-as-judge evaluation      *)
(* pipeline (fuzzy_query_eval.py, two_pronged_eval.py, grade_traces.py,    *)
(* evaluate_from_csv_v2.py, grade_fuzzy_queries.py).                       *)
(*                                                                         *)
(* The scorers are pure functions.  Each is an operator that computes as   *)
(* the Python does; a specification draws a call (function name and        *)
(* arguments) in Init and one action per function applies it.              *)
(*                                                                         *)
(* Number representation                                                   *)
(*   - a value rounded with round(x, 2) is an integer number of hundredths *)
(*     (score_pct 60.0 is 6000);                                           *)
(*   - a value rounded with round(x, 4) is an integer number of 1e-4       *)
(*     (ndcg 1.0 is 10000);                                                *)
(*   - an unrounded float quotient is a normalised fraction [num, den];    *)
(*   - 1 / log2(i + 2) is the fixed-point table InvLog2 (thousandths).     *)
(* Python's round() is round-half-even on the value it is given.           *)
(* A ZeroDivisionError is the value Raise("ZeroDivisionError").            *)
(***************************************************************************)
EXTENDS Integers, Sequences, FiniteSets, TLC

VARIABLES
    fn,                \* the routine that runs
    args,              \* its arguments
    ret,               \* its return value, NoRet until it returns
    pc,                \* its position
    attempt,           \* the loop variable of a retry wrapper
    calls,             \* the judge calls a retry wrapper made: their outcomes
    sleeps,            \* the waits a retry wrapper passed to asyncio.sleep
    task_pc,           \* the position of each coroutine handed to gather
    outstanding,       \* per coroutine, its API calls that are in flight
    results,           \* the result list of asyncio.gather, slot by slot
    completion_order,  \* the coroutines in the order in which they finished
    semaphore,         \* the free permits of the asyncio.Semaphore
    completed,         \* the progress counters of evaluate_tasks
    success_count,
    error_count,
    skipped_count,
    unsaved_results,   \* the results evaluate_tasks has not yet written
    output_file        \* the lines of the JSONL file of evaluate_tasks

call_vars == <<fn, args, ret, pc>>

retry_vars == <<attempt, calls, sleeps>>

gather_vars == <<task_pc, outstanding, results, completion_order, semaphore>>

progress_vars ==
    <<completed, success_count, error_count, skipped_count,
      unsaved_results, output_file>>

vars == <<call_vars, retry_vars, gather_vars, progress_vars>>

(***************************************************************************)
(* Bounds of the model                                                     *)
(***************************************************************************)
\* at most this many of the 19 structured checks are answered Yes or No
MaxApplicable == 3
\* at most this many criteria appear in a parsed explanation
MaxCriteria == 3
\* longest ranked list of stores
MaxLen == 3
\* at most this many of the 17 checks of a judgment carry points
MaxAwarded == 2
\* longest list of recommendations of one query
MaxRecs == 6
\* at most this many criteria are named in a judgment that omits the rest
MaxNamed == 2
\* largest max_retries a retry wrapper is called with
MaxRetries == 3
\* longest list of items judged concurrently
MaxItems == 3
\* most traces of a run of judge_key_metrics_v2
MaxTraces == 2
\* largest concurrency limit of a run (--parallel, parallel_limit)
MaxParallel == 2
\* most tasks of a run of grade_fuzzy_queries.evaluate_tasks
MaxTasks == 2
\* largest save_interval of a run of grade_fuzzy_queries.evaluate_tasks
MaxSaveInterval == 3
\* most checks of a row answered 'Yes'
MaxYes == 2

(***************************************************************************)
(* Python arithmetic                                                       *)
(***************************************************************************)
NoRet == [pending |-> TRUE]

\* a synchronous routine runs no retry loop, hands nothing to gather and
\* keeps no progress counters
NoRetry ==
    /\ attempt = 0
    /\ calls = <<>>
    /\ sleeps = <<>>

NoGather ==
    /\ task_pc = <<>>
    /\ outstanding = <<>>
    /\ results = <<>>
    /\ completion_order = <<>>
    /\ semaphore = 0

NoProgress ==
    /\ completed = 0
    /\ success_count = 0
    /\ error_count = 0
    /\ skipped_count = 0
    /\ unsaved_results = <<>>
    /\ output_file = <<>>

Synchronous == NoRetry /\ NoGather /\ NoProgress

sync_unchanged == <<retry_vars, gather_vars, progress_vars>>

Raise(e) == [raised |-> e]

Raised(r) == "raised" \in DOMAIN r

Abs(x) == IF x < 0 THEN -x ELSE x

Min(a, b) == IF a < b THEN a ELSE b

RECURSIVE GCD(_, _)
GCD(a, b) == IF b = 0 THEN a ELSE GCD(b, a % b)

\* the float n / d (d > 0) kept exact
Rat(n, d) ==
    LET g == GCD(Abs(n), d)
    IN  [num |-> n \div g, den |-> d \div g]

\* round(n / d) to the nearest integer, ties to even (d > 0)
RoundHalfEven(n, d) ==
    LET q == n \div d
        r == n % d
    IN  IF 2 * r < d THEN q
        ELSE IF 2 * r > d THEN q + 1
        ELSE IF q % 2 = 0 THEN q ELSE q + 1

\* the Python expression round(n / d): a value, or ZeroDivisionError
PyRoundDiv(n, d) ==
    IF d = 0 THEN Raise("ZeroDivisionError")
    ELSE IF d < 0 THEN [value |-> RoundHalfEven(-n, -d)]
    ELSE [value |-> RoundHalfEven(n, d)]

\* floor(n * 10^digits / d) and the remainder, by long division (d > 0)
RECURSIVE ScaledDiv(_, _, _)
ScaledDiv(n, d, digits) ==
    IF digits = 0 THEN [q |-> n \div d, r |-> n % d]
    ELSE LET p == ScaledDiv(n, d, digits - 1)
         IN  [q |-> p.q * 10 + (p.r * 10) \div d, r |-> (p.r * 10) % d]

\* the Python expression round(n / d, 4) in units of 1e-4 (d >= 0)
PyRoundDiv4(n, d) ==
    IF d = 0 THEN Raise("ZeroDivisionError")
    ELSE LET p == ScaledDiv(n, d, 4)
         IN  [value |-> IF 2 * p.r < d THEN p.q
                        ELSE IF 2 * p.r > d THEN p.q + 1
                        ELSE IF p.q % 2 = 0 THEN p.q ELSE p.q + 1]

\* the Python expression n / d kept exact: a value, or ZeroDivisionError
PyDiv(n, d) ==
    IF d = 0 THEN Raise("ZeroDivisionError")
    ELSE IF d < 0 THEN [value |-> Rat(-n, -d)]
    ELSE [value |-> Rat(n, d)]

\* str.upper() on the answer strings of the model
Upper(s) ==
    CASE s = "Yes" -> "YES"
      [] s = "yes" -> "YES"
      [] s = "No"  -> "NO"
      [] s = "no"  -> "NO"
      [] s = "na"  -> "NA"
      [] s = "Maybe" -> "MAYBE"
      [] s = "maybe" -> "MAYBE"
      [] OTHER     -> s

(***************************************************************************)
(* fuzzy_query_eval.calculate_store_score                                  *)
(***************************************************************************)
StoreKeys == <<"q1", "q2", "q3", "q4", "q5", "q6", "q7", "q8", "q9">>

\* the section and the field of eval_result that hold the answer of a check
StoreAnswerPaths ==
    [q1 |-> <<"intent_match", "q1_menu_matches_query_intent">>,
     q2 |-> <<"intent_match", "q2_covers_all_modifiers">>,
     q3 |-> <<"constraints", "q3_price_limit_met">>,
     q4 |-> <<"constraints", "q4_location_within_range">>,
     q5 |-> <<"constraints", "q5_speed_requirement_met">>,
     q6 |-> <<"constraints", "q6_quality_rating_met">>,
     q7 |-> <<"constraints", "q7_dietary_need_met">>,
     q8 |-> <<"personalization", "q8_matches_customer_preferences">>,
     q9 |-> <<"personalization", "q9_avoids_customer_hard_avoids">>]

\* whether eval_result[section][field] exists for every check of paths: the
\* dict literal "answers = {...}" raises KeyError when one does not
has_answers(eval_result, paths) ==
    \A q \in DOMAIN paths :
        /\ paths[q][1] \in DOMAIN eval_result
        /\ paths[q][2] \in DOMAIN eval_result[paths[q][1]]

store_weights(q8_weight) ==
    [q1 |-> 3, q2 |-> 2, q3 |-> 1, q4 |-> 1, q5 |-> 1,
     q6 |-> 1, q7 |-> 2, q8 |-> q8_weight, q9 |-> 2]

store_answers(eval_result) ==
    [q1 |-> eval_result.intent_match.q1_menu_matches_query_intent,
     q2 |-> eval_result.intent_match.q2_covers_all_modifiers,
     q3 |-> eval_result.constraints.q3_price_limit_met,
     q4 |-> eval_result.constraints.q4_location_within_range,
     q5 |-> eval_result.constraints.q5_speed_requirement_met,
     q6 |-> eval_result.constraints.q6_quality_rating_met,
     q7 |-> eval_result.constraints.q7_dietary_need_met,
     q8 |-> eval_result.personalization.q8_matches_customer_preferences,
     q9 |-> eval_result.personalization.q9_avoids_customer_hard_avoids]

\* store_loop with the "continue" of an NA answer lost: NA counts as No
RECURSIVE store_loop_counts_na(_, _, _, _, _)
store_loop_counts_na(answers, weights, keys, i, acc) ==
    IF i > Len(keys) THEN acc
    ELSE LET q == keys[i]
             answer == answers[q]
             total == acc.total_weight + weights[q]
             earned == IF Upper(answer) = "YES"
                       THEN acc.earned_weight + weights[q]
                       ELSE acc.earned_weight
         IN  store_loop_counts_na(answers, weights, keys, i + 1,
                                  [total_weight |-> total, earned_weight |-> earned])

\* the loop "for q, answer in answers.items()" over keys[i..], from the
\* accumulator acc = [total_weight, earned_weight]
RECURSIVE store_loop(_, _, _, _, _)
store_loop(answers, weights, keys, i, acc) ==
    IF i > Len(keys) THEN acc
    ELSE LET q == keys[i]
             answer == answers[q]
         IN  IF Upper(answer) = "NA"
             THEN store_loop(answers, weights, keys, i + 1, acc)
             ELSE LET total == acc.total_weight + weights[q]
                      earned == IF Upper(answer) = "YES"
                                THEN acc.earned_weight + weights[q]
                                ELSE acc.earned_weight
                  IN  store_loop(answers, weights, keys, i + 1,
                                 [total_weight |-> total, earned_weight |-> earned])

\* the loop "for q in ['q1', 'q2']" of the intent match score
RECURSIVE intent_loop(_, _, _, _, _)
intent_loop(answers, weights, keys, i, acc) ==
    IF i > Len(keys) THEN acc
    ELSE LET q == keys[i]
         IN  IF Upper(answers[q]) # "NA"
             THEN LET w == acc.total_weight + weights[q]
                      e == IF Upper(answers[q]) = "YES"
                           THEN acc.earned_weight + weights[q]
                           ELSE acc.earned_weight
                  IN  intent_loop(answers, weights, keys, i + 1,
                                  [total_weight |-> w, earned_weight |-> e])
             ELSE intent_loop(answers, weights, keys, i + 1, acc)

\* round((earned / total * 100) if total > 0 else 0, 2), in hundredths
store_score_pct(earned_weight, total_weight) ==
    IF total_weight > 0
    THEN PyRoundDiv(earned_weight * 10000, total_weight)
    ELSE [value |-> 0]

calculate_store_score(eval_result, q8_weight) ==
    LET weights   == store_weights(q8_weight)
        answers   == store_answers(eval_result)
        zero      == [total_weight |-> 0, earned_weight |-> 0]
        sums      == store_loop(answers, weights, StoreKeys, 1, zero)
        score_pct == store_score_pct(sums.earned_weight, sums.total_weight)
        intent    == intent_loop(answers, weights, <<"q1", "q2">>, 1, zero)
        intent_match_score ==
            store_score_pct(intent.earned_weight, intent.total_weight)
    IN  IF ~has_answers(eval_result, StoreAnswerPaths) THEN Raise("KeyError")
        ELSE IF Raised(score_pct) THEN score_pct
        ELSE IF Raised(intent_match_score) THEN intent_match_score
        ELSE [score_pct          |-> score_pct.value,
              earned_weight      |-> sums.earned_weight,
              total_weight       |-> sums.total_weight,
              intent_match_score |-> intent_match_score.value,
              is_relevant        |-> intent_match_score.value > 0,
              answers            |-> answers]

(***************************************************************************)
(* two_pronged_eval.calculate_fuzzy_score                                  *)
(***************************************************************************)
fuzzy_weights(q8_weight) ==
    [q1 |-> 3, q2 |-> 2, q3 |-> 1, q4 |-> 1, q5 |-> 1,
     q6 |-> 1, q7 |-> 2, q8 |-> q8_weight, q9 |-> 2]

fuzzy_answers(eval_result) ==
    [q1 |-> eval_result.intent_match.q1_menu_matches_query_intent,
     q2 |-> eval_result.intent_match.q2_covers_all_modifiers,
     q3 |-> eval_result.constraints.q3_price_limit_met,
     q4 |-> eval_result.constraints.q4_location_within_range,
     q5 |-> eval_result.constraints.q5_speed_requirement_met,
     q6 |-> eval_result.constraints.q6_quality_rating_met,
     q7 |-> eval_result.constraints.q7_dietary_need_met,
     q8 |-> eval_result.personalization.q8_matches_customer_preferences,
     q9 |-> eval_result.personalization.q9_avoids_customer_hard_avoids]

\* fuzzy_loop with the total incremented only in the branch of a No answer
RECURSIVE fuzzy_loop_total_only_on_no(_, _, _, _, _)
fuzzy_loop_total_only_on_no(answers, weights, keys, i, acc) ==
    IF i > Len(keys) THEN acc
    ELSE LET q == keys[i]
             answer == answers[q]
         IN  IF Upper(answer) = "NA"
             THEN fuzzy_loop_total_only_on_no(answers, weights, keys, i + 1, acc)
             ELSE LET next == IF Upper(answer) = "YES"
                              THEN [total_weight  |-> acc.total_weight,
                                    earned_weight |-> acc.earned_weight + weights[q]]
                              ELSE [total_weight  |-> acc.total_weight + weights[q],
                                    earned_weight |-> acc.earned_weight]
                  IN  fuzzy_loop_total_only_on_no(answers, weights, keys, i + 1, next)

RECURSIVE fuzzy_loop(_, _, _, _, _)
fuzzy_loop(answers, weights, keys, i, acc) ==
    IF i > Len(keys) THEN acc
    ELSE LET q == keys[i]
             answer == answers[q]
         IN  IF Upper(answer) = "NA"
             THEN fuzzy_loop(answers, weights, keys, i + 1, acc)
             ELSE LET total == acc.total_weight + weights[q]
                      earned == IF Upper(answer) = "YES"
                                THEN acc.earned_weight + weights[q]
                                ELSE acc.earned_weight
                  IN  fuzzy_loop(answers, weights, keys, i + 1,
                                 [total_weight |-> total, earned_weight |-> earned])

RECURSIVE fuzzy_intent_loop(_, _, _, _, _)
fuzzy_intent_loop(answers, weights, keys, i, acc) ==
    IF i > Len(keys) THEN acc
    ELSE LET q == keys[i]
         IN  IF Upper(answers[q]) # "NA"
             THEN LET w == acc.total_weight + weights[q]
                      e == IF Upper(answers[q]) = "YES"
                           THEN acc.earned_weight + weights[q]
                           ELSE acc.earned_weight
                  IN  fuzzy_intent_loop(answers, weights, keys, i + 1,
                                        [total_weight |-> w, earned_weight |-> e])
             ELSE fuzzy_intent_loop(answers, weights, keys, i + 1, acc)

fuzzy_score_pct(earned_weight, total_weight) ==
    IF total_weight > 0
    THEN PyRoundDiv(earned_weight * 10000, total_weight)
    ELSE [value |-> 0]

calculate_fuzzy_score(eval_result, q8_weight) ==
    LET weights   == fuzzy_weights(q8_weight)
        answers   == fuzzy_answers(eval_result)
        zero      == [total_weight |-> 0, earned_weight |-> 0]
        sums      == fuzzy_loop(answers, weights, StoreKeys, 1, zero)
        score_pct == fuzzy_score_pct(sums.earned_weight, sums.total_weight)
        intent    == fuzzy_intent_loop(answers, weights, <<"q1", "q2">>, 1, zero)
        intent_match_score ==
            fuzzy_score_pct(intent.earned_weight, intent.total_weight)
    IN  IF ~has_answers(eval_result, StoreAnswerPaths) THEN Raise("KeyError")
        ELSE IF Raised(score_pct) THEN score_pct
        ELSE IF Raised(intent_match_score) THEN intent_match_score
        ELSE [score_pct          |-> score_pct.value,
              earned_weight      |-> sums.earned_weight,
              total_weight       |-> sums.total_weight,
              intent_match_score |-> intent_match_score.value,
              is_relevant        |-> intent_match_score.value > 0,
              answers            |-> answers]

(***************************************************************************)
(* two_pronged_eval.calculate_structured_score                             *)
(***************************************************************************)
StructuredKeys ==
    <<"c1", "c2", "c3", "c4", "c5", "c6", "c7", "c8", "c9", "c10",
      "c11", "c12", "c13", "c14", "c15", "c16", "c17", "c18", "c19">>

structured_weights ==
    [c1 |-> 3, c2 |-> 2, c3 |-> 2, c4 |-> 3, c5 |-> 3, c6 |-> 2,
     c7 |-> 2, c8 |-> 1, c9 |-> 1, c10 |-> 2, c11 |-> 3, c12 |-> 2,
     c13 |-> 2, c14 |-> 2, c15 |-> 2, c16 |-> 2, c17 |-> 3, c18 |-> 2,
     c19 |-> 3]

StructuredAnswerPaths ==
    [c1  |-> <<"main_dish_cuisine", "c1_serves_dish_or_cuisine">>,
     c2  |-> <<"main_dish_cuisine", "c2_primary_focus_3plus_items">>,
     c3  |-> <<"main_dish_cuisine", "c3_primary_offering_in_profile">>,
     c4  |-> <<"dietary_restrictions", "c4_meets_dietary_with_dish">>,
     c5  |-> <<"store_name", "c5_exact_store_match">>,
     c6  |-> <<"store_name", "c6_similar_store_cuisine">>,
     c7  |-> <<"flavor", "c7_has_dish_with_flavor">>,
     c8  |-> <<"prep_style", "c8_has_dish_with_prep_style">>,
     c9  |-> <<"portion", "c9_large_portions_in_reviews">>,
     c10 |-> <<"group", "c10_offers_large_quantities">>,
     c11 |-> <<"ingredients", "c11_has_dish_with_ingredients">>,
     c12 |-> <<"location", "c12_within_2_miles">>,
     c13 |-> <<"speed", "c13_meets_speed_requirement">>,
     c14 |-> <<"quality", "c14_good_ratings">>,
     c15 |-> <<"price", "c15_meets_price_requirement">>,
     c16 |-> <<"deals", "c16_has_relevant_deals">>,
     c17 |-> <<"store_open", "c17_is_store_open">>,
     c18 |-> <<"store_rating", "c18_rating_above_4_5">>,
     c19 |-> <<"all_modifiers", "c19_matches_all_modifiers">>]

structured_answers(eval_result) ==
    [c1  |-> eval_result.main_dish_cuisine.c1_serves_dish_or_cuisine,
     c2  |-> eval_result.main_dish_cuisine.c2_primary_focus_3plus_items,
     c3  |-> eval_result.main_dish_cuisine.c3_primary_offering_in_profile,
     c4  |-> eval_result.dietary_restrictions.c4_meets_dietary_with_dish,
     c5  |-> eval_result.store_name.c5_exact_store_match,
     c6  |-> eval_result.store_name.c6_similar_store_cuisine,
     c7  |-> eval_result.flavor.c7_has_dish_with_flavor,
     c8  |-> eval_result.prep_style.c8_has_dish_with_prep_style,
     c9  |-> eval_result.portion.c9_large_portions_in_reviews,
     c10 |-> eval_result.group.c10_offers_large_quantities,
     c11 |-> eval_result.ingredients.c11_has_dish_with_ingredients,
     c12 |-> eval_result.location.c12_within_2_miles,
     c13 |-> eval_result.speed.c13_meets_speed_requirement,
     c14 |-> eval_result.quality.c14_good_ratings,
     c15 |-> eval_result.price.c15_meets_price_requirement,
     c16 |-> eval_result.deals.c16_has_relevant_deals,
     c17 |-> eval_result.store_open.c17_is_store_open,
     c18 |-> eval_result.store_rating.c18_rating_above_4_5,
     c19 |-> eval_result.all_modifiers.c19_matches_all_modifiers]

RECURSIVE structured_loop(_, _, _, _, _)
structured_loop(answers, weights, keys, i, acc) ==
    IF i > Len(keys) THEN acc
    ELSE LET c == keys[i]
             answer == answers[c]
         IN  IF Upper(answer) = "NA"
             THEN structured_loop(answers, weights, keys, i + 1, acc)
             ELSE LET total == acc.total_weight + weights[c]
                      earned == IF Upper(answer) = "YES"
                                THEN acc.earned_weight + weights[c]
                                ELSE acc.earned_weight
                  IN  structured_loop(answers, weights, keys, i + 1,
                                      [total_weight |-> total, earned_weight |-> earned])

\* structured_score_pct without the guard "if total_weight > 0"
structured_score_pct_unguarded(earned_weight, total_weight) ==
    PyRoundDiv(earned_weight * 10000, total_weight)

structured_score_pct(earned_weight, total_weight) ==
    IF total_weight > 0
    THEN PyRoundDiv(earned_weight * 10000, total_weight)
    ELSE [value |-> 0]

\* the enforcement of C17, C18 and C19 is commented out in the source:
\* the list stays empty whatever the answers are
structured_critical_failures(answers) == <<>>

calculate_structured_score(eval_result) ==
    LET weights   == structured_weights
        answers   == structured_answers(eval_result)
        zero      == [total_weight |-> 0, earned_weight |-> 0]
        sums      == structured_loop(answers, weights, StructuredKeys, 1, zero)
        score_pct == structured_score_pct(sums.earned_weight, sums.total_weight)
    IN  IF ~has_answers(eval_result, StructuredAnswerPaths) THEN Raise("KeyError")
        ELSE IF Raised(score_pct) THEN score_pct
        ELSE [score_pct         |-> score_pct.value,
              earned_weight     |-> sums.earned_weight,
              total_weight      |-> sums.total_weight,
              critical_failures |-> structured_critical_failures(answers),
              answers           |-> answers]

(***************************************************************************)
(* grade_traces.calculate_weighted_score                                   *)
(***************************************************************************)
DEFAULT_SCORE_MAPPING_DICT ==
    [is_serving_matched               |-> 3,
     is_serving_more_than_three_items |-> 2,
     is_primary_serving               |-> 2,
     is_dietary_serving               |-> 3,
     is_flavor_match                  |-> 1,
     is_ingredient_present            |-> 3,
     is_prep_style_matched            |-> 1,
     is_exact_restaurant              |-> 3,
     is_similar_restaurant            |-> 2,
     is_portion_matched               |-> 1,
     is_group_matched                 |-> 1,
     is_nearby                        |-> 2,
     is_fast_delivery                 |-> 2,
     is_top_rated                     |-> 2,
     is_overall_rating_good           |-> 2,
     is_store_open                    |-> 3,
     is_price_match                   |-> 2,
     is_fast_delivery_check           |-> 2]

\* DEFAULT_SCORE_MAPPING_DICT.get(criterion, 0)
mapping_get(criterion) ==
    IF criterion \in DOMAIN DEFAULT_SCORE_MAPPING_DICT
    THEN DEFAULT_SCORE_MAPPING_DICT[criterion]
    ELSE 0

\* the loop "for criterion, answer in scores.items()" over the criteria
\* still to visit, from the accumulator acc = [earned, applicable]
RECURSIVE weighted_loop(_, _, _)
weighted_loop(scores, todo, acc) ==
    IF todo = {} THEN acc
    ELSE LET criterion == CHOOSE c \in todo : TRUE
             answer == scores[criterion]
             weight == mapping_get(criterion)
             next == IF answer = "Yes"
                     THEN [earned     |-> acc.earned + weight,
                           applicable |-> acc.applicable + weight]
                     ELSE IF answer = "No"
                     THEN [earned     |-> acc.earned,
                           applicable |-> acc.applicable + weight]
                     ELSE acc
         IN  weighted_loop(scores, todo \ {criterion}, next)

calculate_weighted_score(scores) ==
    LET sums == weighted_loop(scores, DOMAIN scores,
                              [earned |-> 0, applicable |-> 0])
        weighted_pct == IF sums.applicable > 0
                        THEN PyDiv(sums.earned * 100, sums.applicable)
                        ELSE [value |-> Rat(0, 1)]
    IN  IF Raised(weighted_pct) THEN weighted_pct
        ELSE [weighted_pct |-> weighted_pct.value,
              earned       |-> sums.earned,
              applicable   |-> sums.applicable]

(***************************************************************************)
(* Calls of the rubric scorers                                             *)
(***************************************************************************)
Answers == {"Yes", "No", "NA"}

\* the judge is asked for 1..3; the value comes from its JSON unchecked
Q8Weights == {-1, 1, 2, 3}

FuzzyEvalResults ==
    [intent_match    : [q1_menu_matches_query_intent : Answers,
                        q2_covers_all_modifiers      : Answers],
     constraints     : [q3_price_limit_met       : Answers,
                        q4_location_within_range : Answers,
                        q5_speed_requirement_met : Answers,
                        q6_quality_rating_met    : Answers,
                        q7_dietary_need_met      : Answers],
     personalization : [q8_matches_customer_preferences : Answers,
                        q9_avoids_customer_hard_avoids  : Answers]]

StructuredChecks == {StructuredKeys[i] : i \in 1..Len(StructuredKeys)}

\* the judgment in which the checks of yes are "Yes", those of no are "No"
\* and every other check is "NA"
StructuredEvalResult(yes, no) ==
    LET a(c) == IF c \in yes THEN "Yes" ELSE IF c \in no THEN "No" ELSE "NA"
    IN  [main_dish_cuisine    |-> [c1_serves_dish_or_cuisine      |-> a("c1"),
                                   c2_primary_focus_3plus_items   |-> a("c2"),
                                   c3_primary_offering_in_profile |-> a("c3")],
         dietary_restrictions |-> [c4_meets_dietary_with_dish |-> a("c4")],
         store_name           |-> [c5_exact_store_match     |-> a("c5"),
                                   c6_similar_store_cuisine |-> a("c6")],
         flavor               |-> [c7_has_dish_with_flavor |-> a("c7")],
         prep_style           |-> [c8_has_dish_with_prep_style |-> a("c8")],
         portion              |-> [c9_large_portions_in_reviews |-> a("c9")],
         group                |-> [c10_offers_large_quantities |-> a("c10")],
         ingredients          |-> [c11_has_dish_with_ingredients |-> a("c11")],
         location             |-> [c12_within_2_miles |-> a("c12")],
         speed                |-> [c13_meets_speed_requirement |-> a("c13")],
         quality              |-> [c14_good_ratings |-> a("c14")],
         price                |-> [c15_meets_price_requirement |-> a("c15")],
         deals                |-> [c16_has_relevant_deals |-> a("c16")],
         store_open           |-> [c17_is_store_open |-> a("c17")],
         store_rating         |-> [c18_rating_above_4_5 |-> a("c18")],
         all_modifiers        |-> [c19_matches_all_modifiers |-> a("c19")]]

\* the subsets of S with at most n elements
RECURSIVE SubsetsUpTo(_, _)
SubsetsUpTo(S, n) ==
    IF n = 0 \/ S = {} THEN {{}}
    ELSE LET x == CHOOSE y \in S : TRUE
             rest == S \ {x}
         IN  SubsetsUpTo(rest, n) \cup {T \cup {x} : T \in SubsetsUpTo(rest, n - 1)}

StructuredEvalResults ==
    {StructuredEvalResult(yes, app \ yes) :
        <<app, yes>> \in {<<a, y>> \in SubsetsUpTo(StructuredChecks, MaxApplicable)
                                       \X SubsetsUpTo(StructuredChecks, MaxApplicable) :
                            y \subseteq a}}

\* parse_explanation writes 'Yes', 'No' and 'NA to Query'
TraceAnswers == {"Yes", "No", "NA to Query"}

\* the criteria a judge may name: those of the mapping and one it lacks
Criteria == DOMAIN DEFAULT_SCORE_MAPPING_DICT \cup {"is_unlisted_criterion"}

TraceScores ==
    UNION {[S -> TraceAnswers] : S \in SubsetsUpTo(Criteria, MaxCriteria)}

InitScore ==
    /\ pc = "call"
    /\ ret = NoRet
    /\ Synchronous
    /\ \/ /\ fn = "calculate_store_score"
          /\ args \in [eval_result : FuzzyEvalResults, q8_weight : Q8Weights]
       \/ /\ fn = "calculate_fuzzy_score"
          /\ args \in [eval_result : FuzzyEvalResults, q8_weight : Q8Weights]
       \/ /\ fn = "calculate_structured_score"
          /\ args \in [eval_result : StructuredEvalResults]
       \/ /\ fn = "calculate_weighted_score"
          /\ args \in [scores : TraceScores]

CalculateStoreScore ==
    /\ pc = "call"
    /\ fn = "calculate_store_score"
    /\ ret' = calculate_store_score(args.eval_result, args.q8_weight)
    /\ pc' = "return"
    /\ UNCHANGED <<fn, args>>
    /\ UNCHANGED sync_unchanged

CalculateFuzzyScore ==
    /\ pc = "call"
    /\ fn = "calculate_fuzzy_score"
    /\ ret' = calculate_fuzzy_score(args.eval_result, args.q8_weight)
    /\ pc' = "return"
    /\ UNCHANGED <<fn, args>>
    /\ UNCHANGED sync_unchanged

CalculateStructuredScore ==
    /\ pc = "call"
    /\ fn = "calculate_structured_score"
    /\ ret' = calculate_structured_score(args.eval_result)
    /\ pc' = "return"
    /\ UNCHANGED <<fn, args>>
    /\ UNCHANGED sync_unchanged

CalculateWeightedScore ==
    /\ pc = "call"
    /\ fn = "calculate_weighted_score"
    /\ ret' = calculate_weighted_score(args.scores)
    /\ pc' = "return"
    /\ UNCHANGED <<fn, args>>
    /\ UNCHANGED sync_unchanged

NextScore ==
    \/ CalculateStoreScore
    \/ CalculateFuzzyScore
    \/ CalculateStructuredScore
    \/ CalculateWeightedScore

SpecScore == InitScore /\ [][NextScore]_vars

(***************************************************************************)
(* Properties of the rubric scorers (SpecScore)                            *)
(***************************************************************************)
\* the sum of w[c] over the checks c of S
RECURSIVE SumWeights(_, _)
SumWeights(S, w) ==
    IF S = {} THEN 0
    ELSE LET c == CHOOSE x \in S : TRUE
         IN  w[c] + SumWeights(S \ {c}, w)

Returned == pc = "return"

\* the answers given to the call, by check, and the weight of each check
GivenAnswers ==
    CASE fn = "calculate_store_score"      -> store_answers(args.eval_result)
      [] fn = "calculate_fuzzy_score"      -> fuzzy_answers(args.eval_result)
      [] fn = "calculate_structured_score" -> structured_answers(args.eval_result)
      [] fn = "calculate_weighted_score"   -> args.scores

GivenWeights ==
    CASE fn = "calculate_store_score"      -> store_weights(args.q8_weight)
      [] fn = "calculate_fuzzy_score"      -> fuzzy_weights(args.q8_weight)
      [] fn = "calculate_structured_score" -> structured_weights
      [] fn = "calculate_weighted_score"   ->
            [c \in DOMAIN args.scores |-> mapping_get(c)]

ChecksAnswered(as) == {c \in DOMAIN GivenAnswers : GivenAnswers[c] \in as}

\* applicable and earned points and the percentage (as a fraction of 100
\* in hundredths) that a scorer reported
ReportedApplicable ==
    IF fn = "calculate_weighted_score" THEN ret.applicable ELSE ret.total_weight

ReportedEarned ==
    IF fn = "calculate_weighted_score" THEN ret.earned ELSE ret.earned_weight

ReportedPctIsZero ==
    IF fn = "calculate_weighted_score"
    THEN ret.weighted_pct.num = 0
    ELSE ret.score_pct = 0

ReportedPctInRange ==
    IF fn = "calculate_weighted_score"
    THEN /\ 0 <= ret.weighted_pct.num
         /\ ret.weighted_pct.num <= 100 * ret.weighted_pct.den
    ELSE /\ 0 <= ret.score_pct
         /\ ret.score_pct <= 10000

\* C1: the applicable points a scorer reports are the sum of the weights of
\* exactly the checks answered Yes or No, the earned points the sum of the
\* weights of exactly the checks answered Yes; an NA answer adds to neither.
C1_PointsAreSumsOfAnsweredWeights ==
    Returned =>
        /\ ~Raised(ret)
        /\ ReportedApplicable =
               SumWeights(ChecksAnswered({"Yes", "No"}), GivenWeights)
        /\ ReportedEarned = SumWeights(ChecksAnswered({"Yes"}), GivenWeights)

\* Scenario A of the specification: one check of weight 3 answered Yes, one
\* of weight 2 answered No, one of weight 1 answered NA: 3 of 5 points, 60%
C1_Witness ==
    /\ Returned
    /\ fn = "calculate_weighted_score"
    /\ args.scores = [is_serving_matched |-> "Yes",
                      is_primary_serving |-> "No",
                      is_flavor_match    |-> "NA to Query"]
    /\ ret.earned = 3
    /\ ret.applicable = 5
    /\ ret.weighted_pct = [num |-> 60, den |-> 1]

AllNA == \A c \in DOMAIN GivenAnswers : GivenAnswers[c] \in {"NA", "NA to Query"}

\* C2: when every check is answered NA the scorer returns normally with
\* score_pct = 0.0 and applicable points = 0.
C2_AllNAScoresZero ==
    (Returned /\ AllNA) =>
        /\ ~Raised(ret)
        /\ ReportedPctIsZero
        /\ ReportedApplicable = 0

C2_Witness ==
    /\ Returned
    /\ fn = "calculate_structured_score"
    /\ AllNA
    /\ ret.score_pct = 0
    /\ ret.total_weight = 0

AllWeightsPositive ==
    fn \in {"calculate_store_score", "calculate_fuzzy_score"} => args.q8_weight > 0

\* C3: with all weights positive (no gate or critical override exists in
\* these scorers) 0 <= earned <= applicable and 0 <= score_pct <= 100.
C3_ScoreBounds ==
    (Returned /\ AllWeightsPositive) =>
        /\ ~Raised(ret)
        /\ 0 <= ReportedEarned
        /\ ReportedEarned <= ReportedApplicable
        /\ ReportedPctInRange

\* a fuzzy score strictly between the bounds, with the dynamic weight in use
C3_Witness ==
    /\ Returned
    /\ fn = "calculate_fuzzy_score"
    /\ args.q8_weight = 3
    /\ GivenAnswers["q8"] = "Yes"
    /\ 0 < ret.earned_weight
    /\ ret.earned_weight < ret.total_weight
    /\ 0 < ret.score_pct
    /\ ret.score_pct < 10000

\* C5: in calculate_structured_score a critical check (c17, store is open)
\* answered No forces score_pct to 0 and is reported in critical_failures.
C5_CriticalFailureZeroesScore ==
    (Returned /\ fn = "calculate_structured_score" /\ GivenAnswers["c17"] = "No") =>
        /\ ~Raised(ret)
        /\ ret.score_pct = 0
        /\ ret.critical_failures # <<>>

(***************************************************************************)
(* Calls of the rubric scorers on a malformed judgment: one check carries  *)
(* a value no prompt asks for, or carries no answer at all                 *)
(***************************************************************************)
\* values a judge's JSON may carry in place of "Yes", "No" or "NA"
InvalidAnswers == {"Maybe", "N/A"}

\* the judgment, laid out as paths says, that holds answers[q] for each
\* check q of DOMAIN answers and nothing for any other check
EvalResultOf(paths, answers) ==
    LET present == DOMAIN answers
        sections == {paths[q][1] : q \in present}
        fields(s) == {paths[q][2] : q \in {p \in present : paths[p][1] = s}}
        check(s, f) == CHOOSE q \in present : paths[q] = <<s, f>>
    IN  [s \in sections |-> [f \in fields(s) |-> answers[check(s, f)]]]

\* the judgment whose check q carries bad[1], or nothing when bad = <<>>,
\* and whose other checks all carry fill
OneOff(paths, q, bad, fill) ==
    LET present == IF bad = <<>> THEN (DOMAIN paths) \ {q} ELSE DOMAIN paths
    IN  EvalResultOf(paths, [c \in present |-> IF c = q THEN bad[1] ELSE fill])

MalformedEvalResults(paths) ==
    {OneOff(paths, q, bad, fill) :
        q \in DOMAIN paths,
        bad \in {<<>>} \cup {<<v>> : v \in InvalidAnswers},
        fill \in Answers}

\* parse_explanation keeps the criteria listed under Y, N and NA and drops
\* every other part of the explanation: a parsed explanation names few of
\* the criteria of the rubric
SparseTraceScores ==
    UNION {[S -> TraceAnswers] : S \in SubsetsUpTo(Criteria, MaxNamed)}

InitMalformed ==
    /\ pc = "call"
    /\ ret = NoRet
    /\ Synchronous
    /\ \/ /\ fn = "calculate_store_score"
          /\ args \in [eval_result : MalformedEvalResults(StoreAnswerPaths),
                       q8_weight : Q8Weights]
       \/ /\ fn = "calculate_fuzzy_score"
          /\ args \in [eval_result : MalformedEvalResults(StoreAnswerPaths),
                       q8_weight : Q8Weights]
       \/ /\ fn = "calculate_structured_score"
          /\ args \in [eval_result : MalformedEvalResults(StructuredAnswerPaths)]
       \/ /\ fn = "calculate_weighted_score"
          /\ args \in [scores : SparseTraceScores]

SpecMalformed == InitMalformed /\ [][NextScore]_vars

(***************************************************************************)
(* Properties of the rubric scorers on malformed judgments (SpecMalformed) *)
(***************************************************************************)
\* the checks of the rubric a scorer works with
RubricChecks ==
    CASE fn = "calculate_structured_score" -> DOMAIN StructuredAnswerPaths
      [] fn = "calculate_weighted_score"   -> DOMAIN DEFAULT_SCORE_MAPPING_DICT
      [] OTHER                             -> DOMAIN StoreAnswerPaths

\* the answers the judgment of the call carries, by check
CarriedAnswers ==
    IF fn = "calculate_weighted_score" THEN args.scores
    ELSE LET paths == IF fn = "calculate_structured_score"
                      THEN StructuredAnswerPaths ELSE StoreAnswerPaths
             e == args.eval_result
             present == {q \in DOMAIN paths :
                            /\ paths[q][1] \in DOMAIN e
                            /\ paths[q][2] \in DOMAIN e[paths[q][1]]}
         IN  [q \in present |-> e[paths[q][1]][paths[q][2]]]

\* the values that stand for Yes, No and NA in the judgment of the call
RecognisedAnswers ==
    IF fn = "calculate_weighted_score" THEN TraceAnswers ELSE Answers

\* C11: a judgment in which some check carries a value that is not one of
\* Yes / No / NA is rejected with an error: the scorer does not return a
\* score that counts the value as Pass, Fail or NotApplicable.
C11_InvalidAnswerRejected ==
    (Returned /\ \E c \in DOMAIN CarriedAnswers :
                    CarriedAnswers[c] \notin RecognisedAnswers) =>
        Raised(ret)

\* C12: a judgment that lacks the answer of some check of the rubric is
\* rejected with an error, never scored as if the check were NotApplicable.
C12_MissingAnswerRejected ==
    (Returned /\ RubricChecks \ DOMAIN CarriedAnswers # {}) =>
        Raised(ret)

(***************************************************************************)
(* Rank aggregation: NDCG                                                  *)
(***************************************************************************)
\* 1 / log2(i + 2) for i = 0, 1, ... in thousandths
InvLog2 == <<1000, 631, 500, 431, 387, 356, 333, 315, 301, 289>>

\* the value 1.0 of a DCG: a relevance of 1 (score_pct 100.00) at position 0
DcgOne == 10000 * InvLog2[1]

\* sum(xs[i] / log2(i + 2) for i, x in enumerate(xs)), from index i on
RECURSIVE discounted_sum(_, _)
discounted_sum(xs, i) ==
    IF i > Len(xs) THEN 0
    ELSE xs[i] * InvLog2[i] + discounted_sum(xs, i + 1)

\* the index of the first largest element of a non-empty sequence
ArgMax(xs) ==
    CHOOSE i \in 1..Len(xs) :
        /\ \A j \in 1..Len(xs) : xs[j] <= xs[i]
        /\ \A j \in 1..(i - 1) : xs[j] < xs[i]

RemoveAt(xs, i) == SubSeq(xs, 1, i - 1) \o SubSeq(xs, i + 1, Len(xs))

\* sorted(xs): the reverse=True lost, ascending order
RECURSIVE sorted_ascending(_)
sorted_ascending(xs) ==
    IF xs = <<>> THEN <<>>
    ELSE LET i == ArgMax(xs)
         IN  sorted_ascending(RemoveAt(xs, i)) \o <<xs[i]>>

\* sorted(xs, reverse=True)
RECURSIVE sorted_reverse(_)
sorted_reverse(xs) ==
    IF xs = <<>> THEN <<>>
    ELSE LET i == ArgMax(xs)
         IN  <<xs[i]>> \o sorted_reverse(RemoveAt(xs, i))

\* xs[:k] for k >= 0
Slice(xs, k) == SubSeq(xs, 1, Min(k, Len(xs)))

\* [s["score_pct"] for s in store_scores]
ScorePcts(store_scores) == [i \in 1..Len(store_scores) |-> store_scores[i].score_pct]

\* fuzzy_query_eval.calculate_ndcg: k is <<>> for None and <<n>> for n.
\* The locals at the return statement:
ndcg_k(store_scores, k) ==
    IF k = <<>> THEN Len(store_scores) ELSE Min(k[1], Len(store_scores))

\* ndcg_dcg with the discount of the next position, log2(i + 3)
RECURSIVE ndcg_dcg_shifted(_, _, _)
ndcg_dcg_shifted(store_scores, k, i) ==
    IF i > k THEN 0
    ELSE store_scores[i].score_pct * InvLog2[i + 1]
         + ndcg_dcg_shifted(store_scores, k, i + 1)

\* the loop "for i in range(k)" from position i (1-based) on
RECURSIVE ndcg_dcg(_, _, _)
ndcg_dcg(store_scores, k, i) ==
    IF i > k THEN 0
    ELSE store_scores[i].score_pct * InvLog2[i] + ndcg_dcg(store_scores, k, i + 1)

\* ndcg_ideal_scores slicing before sorting: sorted(scores[:k], reverse=True)
ndcg_ideal_scores_of_head(store_scores, k) ==
    sorted_reverse(Slice(ScorePcts(store_scores), k))

ndcg_ideal_scores(store_scores, k) ==
    Slice(sorted_reverse(ScorePcts(store_scores)), k)

ndcg_idcg(ideal_scores) == discounted_sum(ideal_scores, 1)

calculate_ndcg_locals(store_scores, k) ==
    LET kk == ndcg_k(store_scores, k)
        ideal_scores == ndcg_ideal_scores(store_scores, kk)
    IN  [k            |-> kk,
         dcg          |-> ndcg_dcg(store_scores, kk, 1),
         ideal_scores |-> ideal_scores,
         idcg         |-> ndcg_idcg(ideal_scores)]

\* the returned float in units of 1e-4
calculate_ndcg(store_scores, k) ==
    IF store_scores = <<>> THEN [value |-> 0]
    ELSE LET l == calculate_ndcg_locals(store_scores, k)
         IN  IF l.idcg = 0 THEN [value |-> 0]
             ELSE PyRoundDiv4(l.dcg, l.idcg)

\* evaluate_trace_ndcg with the presented order taken as the ideal order
evaluate_trace_ndcg_unsorted(valid_results) ==
    LET dcg == discounted_sum(ScorePcts(valid_results), 1)
    IN  IF dcg > 0 THEN PyRoundDiv4(dcg, dcg) ELSE [value |-> 0]

\* fuzzy_query_eval.evaluate_trace from "valid_results" on: the error
\* record of an empty list, else the inline NDCG
evaluate_trace_ndcg(valid_results) ==
    LET dcg == discounted_sum(ScorePcts(valid_results), 1)
        ideal_scores == sorted_reverse(ScorePcts(valid_results))
        idcg == discounted_sum(ideal_scores, 1)
    IN  IF idcg > 0 THEN PyRoundDiv4(dcg, idcg) ELSE [value |-> 0]

evaluate_trace(valid_results) ==
    IF valid_results = <<>>
    THEN [error |-> "All store evaluations failed"]
    ELSE LET ndcg == evaluate_trace_ndcg(valid_results)
         IN  IF Raised(ndcg) THEN ndcg ELSE [ndcg |-> ndcg.value]

\* two_pronged_eval.evaluate_single_store: round((fuzzy + structured) / 2, 2)
combined_score(fuzzy_pct, structured_pct) ==
    RoundHalfEven(fuzzy_pct + structured_pct, 2)

\* two_pronged_ndcg without the "or 1"
two_pronged_ndcg_unguarded(scores) ==
    PyRoundDiv4(discounted_sum(scores, 1), discounted_sum(sorted_reverse(scores), 1))

\* two_pronged_eval.evaluate_trace_two_pronged: one inline NDCG,
\* round(dcg / (idcg or 1), 4)
two_pronged_ndcg(scores) ==
    LET dcg == discounted_sum(scores, 1)
        ideal == sorted_reverse(scores)
        sum == discounted_sum(ideal, 1)
        idcg == IF sum # 0 THEN sum ELSE DcgOne
    IN  PyRoundDiv4(dcg, idcg)

evaluate_trace_two_pronged(valid_results) ==
    IF valid_results = <<>>
    THEN [error |-> "All store evaluations failed"]
    ELSE LET n == Len(valid_results)
             fuzzy_scores == [i \in 1..n |-> valid_results[i].fuzzy_evaluation.score_pct]
             structured_scores ==
                 [i \in 1..n |-> valid_results[i].structured_evaluation.score_pct]
             combined_scores == [i \in 1..n |-> valid_results[i].combined_score]
             ndcg_fuzzy == two_pronged_ndcg(fuzzy_scores)
             ndcg_structured == two_pronged_ndcg(structured_scores)
             ndcg_combined == two_pronged_ndcg(combined_scores)
         IN  IF Raised(ndcg_fuzzy) THEN ndcg_fuzzy
             ELSE IF Raised(ndcg_structured) THEN ndcg_structured
             ELSE IF Raised(ndcg_combined) THEN ndcg_combined
             ELSE [ndcg_fuzzy      |-> ndcg_fuzzy.value,
                   ndcg_structured |-> ndcg_structured.value,
                   ndcg_combined   |-> ndcg_combined.value]

\* sum(10.0 / log2(i + 2) for i in range(k))
RECURSIVE ideal_all_tens(_)
ideal_all_tens(k) ==
    IF k = 0 THEN 0 ELSE 1000 * InvLog2[k] + ideal_all_tens(k - 1)

\* evaluate_from_csv_v2.calculate_ndcg_at_5: weighted scores in hundredths
\* (10.0 is 1000), the unrounded quotient as a fraction
calculate_ndcg_at_5(weighted_scores) ==
    IF weighted_scores = <<>> THEN [value |-> Rat(0, 1)]
    ELSE LET dcg == discounted_sum(weighted_scores, 1)
             k == Len(weighted_scores)
             idcg == ideal_all_tens(k)
         IN  IF idcg > 0 THEN PyDiv(dcg, idcg) ELSE [value |-> Rat(0, 1)]

(***************************************************************************)
(* Calls of the NDCG routines                                              *)
(***************************************************************************)
\* score_pct values in hundredths of a percent
ScoreValues == {0, 5000, 5001, 10000}

\* weighted scores of recommendations in hundredths (0.0, 5.0 and 10.0)
WeightedValues == {0, 500, 1000}

SeqsUpTo(S, n) == UNION {[1..m -> S] : m \in 0..n}

StoreScoreLists == SeqsUpTo([score_pct : ScoreValues], MaxLen)

Cutoffs == {<<>>} \cup {<<j>> : j \in 0..(MaxLen + 1)}

TwoProngedResults ==
    {[fuzzy_evaluation      |-> [score_pct |-> f],
      structured_evaluation |-> [score_pct |-> g],
      combined_score        |-> combined_score(f, g)] :
        <<f, g>> \in ScoreValues \X ScoreValues}

InitNdcg ==
    /\ pc = "call"
    /\ ret = NoRet
    /\ Synchronous
    /\ \/ /\ fn = "calculate_ndcg"
          /\ args \in [store_scores : StoreScoreLists, k : Cutoffs]
       \/ /\ fn = "evaluate_trace"
          /\ args \in [valid_results : StoreScoreLists]
       \/ /\ fn = "evaluate_trace_two_pronged"
          /\ args \in [valid_results : SeqsUpTo(TwoProngedResults, MaxLen)]
       \/ /\ fn = "calculate_ndcg_at_5"
          /\ args \in [weighted_scores : SeqsUpTo(WeightedValues, MaxRecs)]

CalculateNdcg ==
    /\ pc = "call"
    /\ fn = "calculate_ndcg"
    /\ LET r == calculate_ndcg(args.store_scores, args.k)
       IN  ret' = IF Raised(r) THEN r
                  ELSE [ndcg   |-> r.value,
                        locals |-> calculate_ndcg_locals(args.store_scores, args.k)]
    /\ pc' = "return"
    /\ UNCHANGED <<fn, args>>
    /\ UNCHANGED sync_unchanged

EvaluateTrace ==
    /\ pc = "call"
    /\ fn = "evaluate_trace"
    /\ ret' = evaluate_trace(args.valid_results)
    /\ pc' = "return"
    /\ UNCHANGED <<fn, args>>
    /\ UNCHANGED sync_unchanged

EvaluateTraceTwoPronged ==
    /\ pc = "call"
    /\ fn = "evaluate_trace_two_pronged"
    /\ ret' = evaluate_trace_two_pronged(args.valid_results)
    /\ pc' = "return"
    /\ UNCHANGED <<fn, args>>
    /\ UNCHANGED sync_unchanged

CalculateNdcgAt5 ==
    /\ pc = "call"
    /\ fn = "calculate_ndcg_at_5"
    /\ LET r == calculate_ndcg_at_5(args.weighted_scores)
       IN  ret' = IF Raised(r) THEN r ELSE [ndcg |-> r.value]
    /\ pc' = "return"
    /\ UNCHANGED <<fn, args>>
    /\ UNCHANGED sync_unchanged

NextNdcg ==
    \/ CalculateNdcg
    \/ EvaluateTrace
    \/ EvaluateTraceTwoPronged
    \/ CalculateNdcgAt5

SpecNdcg == InitNdcg /\ [][NextNdcg]_vars

(***************************************************************************)
(* Properties of the NDCG routines (SpecNdcg)                              *)
(***************************************************************************)
\* the scores of the ranked list given to the call, in presented order
RankedScores ==
    CASE fn = "calculate_ndcg"             -> ScorePcts(args.store_scores)
      [] fn = "evaluate_trace"             -> ScorePcts(args.valid_results)
      [] fn = "calculate_ndcg_at_5"        -> args.weighted_scores
      [] fn = "evaluate_trace_two_pronged" ->
            [i \in 1..Len(args.valid_results) |->
                args.valid_results[i].fuzzy_evaluation.score_pct]

NonIncreasing(xs) == \A i \in 1..(Len(xs) - 1) : xs[i] >= xs[i + 1]

AllZero(xs) == \A i \in 1..Len(xs) : xs[i] = 0

UnitInterval(x) == 0 <= x /\ x <= 10000

\* the sum of xs[i] * InvLog2[i] over the positions i of I
RECURSIVE DcgOver(_, _)
DcgOver(xs, I) ==
    IF I = {} THEN 0
    ELSE LET i == CHOOSE j \in I : TRUE
         IN  xs[i] * InvLog2[i] + DcgOver(xs, I \ {i})

\* the number of positions of xs that hold v, and that hold more than v
CountOf(xs, v) == Cardinality({i \in 1..Len(xs) : xs[i] = v})

CountAbove(xs, v) == Cardinality({i \in 1..Len(xs) : xs[i] > v})

\* ys lists, in descending order, the m largest elements of xs
IsTopDescending(ys, xs, m) ==
    /\ Len(ys) = m
    /\ NonIncreasing(ys)
    /\ \A v \in {xs[i] : i \in 1..Len(xs)} \cup {ys[i] : i \in 1..Len(ys)} :
          LET room == m - CountAbove(xs, v)
          IN  CountOf(ys, v) = IF room <= 0 THEN 0 ELSE Min(room, CountOf(xs, v))

\* C6: for a non-empty ranked list of scores in [0, 100] and any cutoff,
\* calculate_ndcg and the inline NDCG of evaluate_trace and
\* evaluate_trace_two_pronged return a value in [0.0, 1.0]: the DCG of the
\* presented order never exceeds the DCG of the descending order.
C6_NdcgInUnitInterval ==
    (Returned /\ RankedScores # <<>>) =>
        /\ ~Raised(ret)
        /\ fn = "calculate_ndcg" =>
              /\ UnitInterval(ret.ndcg)
              /\ 0 <= ret.locals.dcg
              /\ ret.locals.dcg <= ret.locals.idcg
        /\ fn = "evaluate_trace" => UnitInterval(ret.ndcg)
        /\ fn = "evaluate_trace_two_pronged" =>
              /\ UnitInterval(ret.ndcg_fuzzy)
              /\ UnitInterval(ret.ndcg_structured)
              /\ UnitInterval(ret.ndcg_combined)

\* Scenario D of the specification: [100, 0, 50] with k = 3 gives 0.950
C6_Witness ==
    /\ Returned
    /\ fn = "calculate_ndcg"
    /\ RankedScores = <<10000, 0, 5000>>
    /\ args.k = <<3>>
    /\ ret.locals.dcg < ret.locals.idcg
    /\ ret.ndcg = 9502

PositiveCutoff == args.k = <<>> \/ args.k[1] >= 1

\* C7 as claimed: calculate_ndcg returns 1.0 exactly when the presented
\* order is non-increasing, lists of identical scores included.
C7_OneIffNonIncreasing ==
    (Returned /\ fn = "calculate_ndcg" /\ RankedScores # <<>>) =>
        /\ ~Raised(ret)
        /\ ret.ndcg = 10000 <=> NonIncreasing(RankedScores)

\* C7 amended: for a non-empty list with a positive score and a cutoff that
\* is omitted or at least 1, calculate_ndcg returns 1.0 whenever the
\* presented order is non-increasing; with the cutoff omitted the DCG equals
\* the IDCG (before rounding to 4 decimals) only if the presented order is
\* non-increasing; an all-zero list returns 0.0.
C7_NonIncreasingScoresOne ==
    (Returned /\ fn = "calculate_ndcg" /\ RankedScores # <<>>) =>
        /\ ~Raised(ret)
        /\ (NonIncreasing(RankedScores) /\ ~AllZero(RankedScores) /\ PositiveCutoff)
              => ret.ndcg = 10000
        /\ (args.k = <<>> /\ ret.locals.idcg > 0 /\ ret.locals.dcg = ret.locals.idcg)
              => NonIncreasing(RankedScores)
        /\ AllZero(RankedScores) => ret.ndcg = 0

\* a descending list with a cutoff below its length scores 1.0
C7_Witness ==
    /\ Returned
    /\ fn = "calculate_ndcg"
    /\ RankedScores = <<10000, 5000, 0>>
    /\ args.k = <<2>>
    /\ ret.ndcg = 10000

Participating(n) == IF args.k = <<>> THEN n ELSE Min(args.k[1], n)

\* C9: with a cutoff k the DCG sums the first min(k, n) positions of the
\* presented order and the IDCG sums the min(k, n) largest scores of the
\* whole list in descending order; with k omitted both use all n positions.
C9_CutoffPositions ==
    (Returned /\ fn = "calculate_ndcg" /\ RankedScores # <<>>) =>
        LET m == Participating(Len(RankedScores))
        IN  /\ ~Raised(ret)
            /\ ret.locals.dcg = DcgOver(RankedScores, 1..m)
            /\ IsTopDescending(ret.locals.ideal_scores, RankedScores, m)
            /\ ret.locals.idcg = DcgOver(ret.locals.ideal_scores, 1..m)

\* the largest score lies beyond the cutoff: it is left out of the DCG and
\* taken into the IDCG
C9_Witness ==
    /\ Returned
    /\ fn = "calculate_ndcg"
    /\ RankedScores = <<5000, 0, 10000>>
    /\ args.k = <<2>>
    /\ ret.locals.dcg = 5000 * InvLog2[1]
    /\ ret.locals.ideal_scores = <<10000, 5000>>
    /\ ret.locals.idcg = 10000 * InvLog2[1] + 5000 * InvLog2[2]

(***************************************************************************)
(* Score verification: verify_and_recalculate_scores                       *)
(*                                                                         *)
(* Scores on the 0-10 scale are integers in hundredths (10.0 is 1000), so  *)
(* (rel_points / 20.0) * 10.0 is rel_points * 50, float(ser_points) is     *)
(* ser_points * 100 and rel * 0.7 + ser * 0.3 is (rel * 7 + ser * 3) / 10, *)
(* a whole number of hundredths.  The function writes into the dict it is  *)
(* given and returns that same dict.                                       *)
(***************************************************************************)
tolerance == 15

\* d.get(key, default) on a dict d
DictGet(d, key, default) == IF key \in DOMAIN d THEN d[key] ELSE default

EmptyDict == <<>>

\* sum(check.get("points", 0) for check in checks.values()) over the keys
\* still to visit
RECURSIVE sum_points(_, _)
sum_points(checks, todo) ==
    IF todo = {} THEN 0
    ELSE LET name == CHOOSE c \in todo : TRUE
         IN  DictGet(checks[name], "points", 0) + sum_points(checks, todo \ {name})

\* the gate lookup with a misspelt key: never finds the gate check
is_gate_violation_wrong_key(result) ==
    LET rel_checks == DictGet(result, "relevance_format_checks", EmptyDict)
        gate_check == DictGet(rel_checks, "check_6_profile_dietary", EmptyDict)
    IN  DictGet(gate_check, "is_gate_violation", FALSE)

\* evaluate_from_csv_v2.verify_and_recalculate_scores
is_gate_violation(result) ==
    LET rel_checks == DictGet(result, "relevance_format_checks", EmptyDict)
        gate_check == DictGet(rel_checks, "check_6_profile_dietary_gate", EmptyDict)
    IN  DictGet(gate_check, "is_gate_violation", FALSE)

calculated_rel_score(result) ==
    LET rel_checks == DictGet(result, "relevance_format_checks", EmptyDict)
    IN  sum_points(rel_checks, DOMAIN rel_checks) * 50

calculated_ser_score(result) ==
    LET ser_checks == DictGet(result, "serendipity_checks", EmptyDict)
    IN  sum_points(ser_checks, DOMAIN ser_checks) * 100

\* the weighted score taken from the two scores the dict holds, not from
\* the two recomputed ones
calculated_weighted_of_held(result) ==
    (DictGet(result, "relevance_format_score", 0) * 7
     + DictGet(result, "serendipity_score", 0) * 3) \div 10

calculated_weighted(result) ==
    (calculated_rel_score(result) * 7 + calculated_ser_score(result) * 3) \div 10

\* the comparison without abs(): only a claim below the sum is a mismatch
score_mismatch_signed(calculated, llm) == calculated - llm > tolerance

\* abs(calculated - llm) > tolerance
score_mismatch(calculated, llm) == Abs(calculated - llm) > tolerance

\* the dict with d[key] = value
DictSet(d, key, value) ==
    [k \in DOMAIN d \cup {key} |-> IF k = key THEN value ELSE d[k]]

verify_and_recalculate_scores(result) ==
    IF is_gate_violation(result)
    THEN DictSet(DictSet(DictSet(result, "relevance_format_score", 0),
                         "serendipity_score", 0),
                 "weighted_score", 0)
    ELSE LET llm_rel_score == DictGet(result, "relevance_format_score", 0)
             llm_ser_score == DictGet(result, "serendipity_score", 0)
             llm_weighted  == DictGet(result, "weighted_score", 0)
             r1 == IF score_mismatch(calculated_rel_score(result), llm_rel_score)
                   THEN DictSet(result, "relevance_format_score",
                                calculated_rel_score(result))
                   ELSE result
             r2 == IF score_mismatch(calculated_ser_score(result), llm_ser_score)
                   THEN DictSet(r1, "serendipity_score", calculated_ser_score(result))
                   ELSE r1
             r3 == IF score_mismatch(calculated_weighted(result), llm_weighted)
                   THEN DictSet(r2, "weighted_score", calculated_weighted(result))
                   ELSE r2
         IN  r3

\* grade_fuzzy_queries.verify_and_recalculate_scores: the copy that skips
\* check values that are not dicts; every check of the model is a dict
RECURSIVE gfq_sum_points(_, _)
gfq_sum_points(checks, todo) ==
    IF todo = {} THEN 0
    ELSE LET name == CHOOSE c \in todo : TRUE
         IN  DictGet(checks[name], "points", 0) + gfq_sum_points(checks, todo \ {name})

gfq_is_gate_violation(result) ==
    LET rel_checks == DictGet(result, "relevance_format_checks", EmptyDict)
        gate_check == DictGet(rel_checks, "check_6_profile_dietary_gate", EmptyDict)
    IN  DictGet(gate_check, "is_gate_violation", FALSE)

gfq_calculated_rel_score(result) ==
    LET rel_checks == DictGet(result, "relevance_format_checks", EmptyDict)
    IN  gfq_sum_points(rel_checks, DOMAIN rel_checks) * 50

gfq_calculated_ser_score(result) ==
    LET ser_checks == DictGet(result, "serendipity_checks", EmptyDict)
    IN  gfq_sum_points(ser_checks, DOMAIN ser_checks) * 100

gfq_calculated_weighted(result) ==
    (gfq_calculated_rel_score(result) * 7 + gfq_calculated_ser_score(result) * 3) \div 10

gfq_score_mismatch(calculated, llm) == Abs(calculated - llm) > tolerance

gfq_verify_and_recalculate_scores(result) ==
    IF gfq_is_gate_violation(result)
    THEN DictSet(DictSet(DictSet(result, "relevance_format_score", 0),
                         "serendipity_score", 0),
                 "weighted_score", 0)
    ELSE LET llm_rel_score == DictGet(result, "relevance_format_score", 0)
             llm_ser_score == DictGet(result, "serendipity_score", 0)
             llm_weighted  == DictGet(result, "weighted_score", 0)
             r1 == IF gfq_score_mismatch(gfq_calculated_rel_score(result), llm_rel_score)
                   THEN DictSet(result, "relevance_format_score",
                                gfq_calculated_rel_score(result))
                   ELSE result
             r2 == IF gfq_score_mismatch(gfq_calculated_ser_score(result), llm_ser_score)
                   THEN DictSet(r1, "serendipity_score", gfq_calculated_ser_score(result))
                   ELSE r1
             r3 == IF gfq_score_mismatch(gfq_calculated_weighted(result), llm_weighted)
                   THEN DictSet(r2, "weighted_score", gfq_calculated_weighted(result))
                   ELSE r2
         IN  r3

(***************************************************************************)
(* Calls of verify_and_recalculate_scores                                  *)
(***************************************************************************)
\* the points of the rubric for each check of the judge's JSON schema
RelevanceRubric ==
    [check_1_primary_intent          |-> 3,
     check_2_descriptive_traits      |-> 2,
     check_3_category_dietary        |-> 2,
     check_4_situational             |-> 2,
     check_5_explicit_constraints    |-> 2,
     check_6_profile_dietary_gate    |-> 1,
     check_7_output_clarity          |-> 2,
     check_8_mainstream_availability |-> 2,
     check_9_format_correctness      |-> 2,
     check_10_no_redundant_info      |-> 1,
     check_11_no_vague_filler        |-> 1]

SerendipityRubric ==
    [check_1_novelty_tier                     |-> 5,
     check_2_low_discoverability              |-> 1,
     check_3_familiar_ingredients_new_context |-> 1,
     check_4_context_fit_while_novel          |-> 1,
     check_5_aha_moment                       |-> 1,
     check_6_creates_curiosity                |-> 1]

\* what a judge's claimed score may differ by from the sum of its checks
ClaimOffsets == {-16, 0, 15, 16}

\* the judgment whose checks of awarded carry their points, with the
\* gate flag and the three claimed scores given
Judgment(awarded, gate, rel, ser, weighted) ==
    [relevance_format_checks |->
        [c \in DOMAIN RelevanceRubric |->
            LET base == [passed |-> c \in awarded,
                         points |-> IF c \in awarded THEN RelevanceRubric[c] ELSE 0]
            IN  IF c = "check_6_profile_dietary_gate"
                THEN [passed            |-> base.passed,
                      points            |-> base.points,
                      is_gate_violation |-> gate]
                ELSE base],
     serendipity_checks |->
        [c \in DOMAIN SerendipityRubric |->
            [passed |-> c \in awarded,
             points |-> IF c \in awarded THEN SerendipityRubric[c] ELSE 0]],
     relevance_format_score |-> rel,
     serendipity_score      |-> ser,
     weighted_score         |-> weighted]

Judgments ==
    {LET bare == Judgment(awarded, gate, 0, 0, 0)
     IN  Judgment(awarded, gate,
                  calculated_rel_score(bare) + off[1],
                  calculated_ser_score(bare) + off[2],
                  calculated_weighted(bare) + off[3]) :
        <<awarded, gate, off>> \in
            SubsetsUpTo(DOMAIN RelevanceRubric \cup DOMAIN SerendipityRubric, MaxAwarded)
            \X BOOLEAN
            \X (ClaimOffsets \X ClaimOffsets \X ClaimOffsets)}

\* judgments whose three claims all lie at the edge of the tolerance, above
\* or below the sum of their checks
ToleranceEdgeJudgments ==
    {LET bare == Judgment(awarded, FALSE, 0, 0, 0)
     IN  Judgment(awarded, FALSE,
                  calculated_rel_score(bare) + off[1],
                  calculated_ser_score(bare) + off[2],
                  calculated_weighted(bare) + off[3]) :
        <<awarded, off>> \in
            SubsetsUpTo(DOMAIN RelevanceRubric \cup DOMAIN SerendipityRubric, 1)
            \X ({-tolerance, tolerance} \X {-tolerance, tolerance} \X {-tolerance, tolerance})}

\* args.response is the judge's JSON as received, args.result the dict
\* parsed from it that is handed to the function
InitVerify ==
    /\ pc = "call"
    /\ ret = NoRet
    /\ Synchronous
    /\ fn \in {"evaluate_from_csv_v2.verify_and_recalculate_scores",
               "grade_fuzzy_queries.verify_and_recalculate_scores"}
    /\ \E j \in Judgments \cup ToleranceEdgeJudgments :
          args = [response |-> j, result |-> j]

VerifyAndRecalculateScores ==
    /\ pc = "call"
    /\ fn = "evaluate_from_csv_v2.verify_and_recalculate_scores"
    /\ ret' = verify_and_recalculate_scores(args.result)
    /\ args' = [args EXCEPT !.result = ret']
    /\ pc' = "return"
    /\ UNCHANGED fn
    /\ UNCHANGED sync_unchanged

GfqVerifyAndRecalculateScores ==
    /\ pc = "call"
    /\ fn = "grade_fuzzy_queries.verify_and_recalculate_scores"
    /\ ret' = gfq_verify_and_recalculate_scores(args.result)
    /\ args' = [args EXCEPT !.result = ret']
    /\ pc' = "return"
    /\ UNCHANGED fn
    /\ UNCHANGED sync_unchanged

\* a second call on the dict the first call returned
VerifyAndRecalculateScoresAgain ==
    /\ pc = "return"
    /\ fn = "evaluate_from_csv_v2.verify_and_recalculate_scores"
    /\ ret' = verify_and_recalculate_scores(args.result)
    /\ args' = [args EXCEPT !.result = ret']
    /\ pc' = "returned_twice"
    /\ UNCHANGED fn
    /\ UNCHANGED sync_unchanged

GfqVerifyAndRecalculateScoresAgain ==
    /\ pc = "return"
    /\ fn = "grade_fuzzy_queries.verify_and_recalculate_scores"
    /\ ret' = gfq_verify_and_recalculate_scores(args.result)
    /\ args' = [args EXCEPT !.result = ret']
    /\ pc' = "returned_twice"
    /\ UNCHANGED fn
    /\ UNCHANGED sync_unchanged

NextVerify ==
    \/ VerifyAndRecalculateScores
    \/ GfqVerifyAndRecalculateScores
    \/ VerifyAndRecalculateScoresAgain
    \/ GfqVerifyAndRecalculateScoresAgain

SpecVerify == InitVerify /\ [][NextVerify]_vars

(***************************************************************************)
(* Properties of verify_and_recalculate_scores (SpecVerify)                *)
(***************************************************************************)
\* the sum of the points of a family of checks
RECURSIVE PointsOf(_, _)
PointsOf(checks, names) ==
    IF names = {} THEN 0
    ELSE LET c == CHOOSE x \in names : TRUE
         IN  checks[c].points + PointsOf(checks, names \ {c})

JudgedRelPoints ==
    PointsOf(args.response.relevance_format_checks,
             DOMAIN args.response.relevance_format_checks)

JudgedSerPoints ==
    PointsOf(args.response.serendipity_checks, DOMAIN args.response.serendipity_checks)

\* the three scores recomputed from the check points: points / 20 * 10,
\* the sum of points, and 0.7 * relevance + 0.3 * serendipity
Recomputed ==
    [relevance_format_score |-> JudgedRelPoints * 50,
     serendipity_score      |-> JudgedSerPoints * 100,
     weighted_score         |-> JudgedRelPoints * 35 + JudgedSerPoints * 30]

ScoreNames == {"relevance_format_score", "serendipity_score", "weighted_score"}

GateViolated ==
    args.response.relevance_format_checks["check_6_profile_dietary_gate"].is_gate_violation

\* C4: when the gate check has is_gate_violation = true the three returned
\* scores are 0, whatever the other checks carry and the judge claimed.
C4_GateViolationZeroesScores ==
    (Returned /\ GateViolated) =>
        \A s \in ScoreNames : ret[s] = 0

\* a gate violation on a judgment whose checks carry points and whose
\* claimed scores are not zero
C4_Witness ==
    /\ Returned
    /\ GateViolated
    /\ JudgedRelPoints > 0
    /\ JudgedSerPoints > 0
    /\ \A s \in ScoreNames : args.response[s] > 0 /\ ret[s] = 0

\* C10: without a gate violation each score is handled on its own: a
\* claimed value more than 0.15 away from the recomputed one is replaced
\* by the recomputed one, any other claimed value is kept; every returned
\* score is within 0.15 of its recomputed value.
C10_ScoresVerifiedIndependently ==
    (Returned /\ ~GateViolated) =>
        \A s \in ScoreNames :
            LET claimed == args.response[s]
                distance == IF claimed > Recomputed[s]
                            THEN claimed - Recomputed[s]
                            ELSE Recomputed[s] - claimed
            IN  /\ distance > 15 => ret[s] = Recomputed[s]
                /\ distance <= 15 => ret[s] = claimed
                /\ ret[s] - Recomputed[s] <= 15
                /\ Recomputed[s] - ret[s] <= 15

\* one score replaced while the other two claims are kept
C10_Witness ==
    /\ Returned
    /\ ~GateViolated
    /\ JudgedRelPoints > 0
    /\ args.response.relevance_format_score = Recomputed.relevance_format_score + 16
    /\ ret.relevance_format_score = Recomputed.relevance_format_score
    /\ args.response.serendipity_score = Recomputed.serendipity_score + 15
    /\ ret.serendipity_score = args.response.serendipity_score
    /\ args.response.weighted_score = Recomputed.weighted_score - 16
    /\ ret.weighted_score = Recomputed.weighted_score

\* C13: verify_and_recalculate_scores does not mutate its input: after it
\* returns, the record passed in still holds the three scores the judge
\* claimed.
C13_InputNotMutated ==
    Returned => \A s \in ScoreNames : args.result[s] = args.response[s]

\* C14: a second call of verify_and_recalculate_scores, on the record the
\* first call corrected, returns what the first call returned.
C14_ReverifyReturnsSame ==
    [][(pc = "return" /\ pc' = "returned_twice") => ret' = ret]_vars

\* a second call on a record of which the first call replaced a score
C14_Witness ==
    /\ pc = "returned_twice"
    /\ ~GateViolated
    /\ JudgedRelPoints > 0
    /\ args.response.weighted_score = Recomputed.weighted_score + 16
    /\ args.response.serendipity_score = Recomputed.serendipity_score - 16
    /\ args.response.relevance_format_score = Recomputed.relevance_format_score + 15
    /\ ret.weighted_score = Recomputed.weighted_score
    /\ ret.serendipity_score = Recomputed.serendipity_score
    /\ ret.relevance_format_score = args.response.relevance_format_score

(***************************************************************************)
(* Retry wrappers                                                          *)
(*   evaluate_from_csv_v2.evaluate_single_recommendation_with_retry        *)
(*   grade_fuzzy_queries.evaluate_single_recommendation                    *)
(*                                                                         *)
(* pc is "loop" at the head of "for attempt in range(max_retries)",        *)
(* "judge" while the judge call is awaited, "sleep" during the backoff     *)
(* and "return" after the return statement.  calls records how the try     *)
(* body of each attempt ended: it returned, or raised the error named.     *)
(***************************************************************************)
\* Python's None
None == [none |-> TRUE]

\* a wait that grows linearly with the attempt
Twice(n) == 2 * n

\* 2 ** n
RECURSIVE Pow2(_)
Pow2(n) == IF n = 0 THEN 1 ELSE 2 * Pow2(n - 1)

\* the zero scores a wrapper or a judge call answers a failure with; the
\* reasoning is the message and the error it quotes
zero_scores(reasoning) ==
    [relevance_format_checks    |-> EmptyDict,
     serendipity_checks         |-> EmptyDict,
     relevance_format_score     |-> 0,
     serendipity_score          |-> 0,
     weighted_score             |-> 0,
     relevance_format_reasoning |-> reasoning,
     serendipity_reasoning      |-> reasoning,
     overall_reasoning          |-> reasoning]

\* a JSON value that is not an object: result.get raises AttributeError
NotADict == [json_array |-> TRUE]

\* two judgments of a dish: one whose claimed scores match its checks and
\* one whose claimed scores do not
RetryJudgments ==
    {Judgment({"check_1_primary_intent"}, FALSE, 150, 0, 105),
     Judgment({"check_1_primary_intent", "check_1_novelty_tier"}, FALSE, 1000, 500, 0)}

\* how evaluate_from_csv_v2.evaluate_single_recommendation may end: it
\* raises, or returns the parsed JSON, or the zero scores of an empty or
\* unparseable response
JudgeOutcomes ==
    {[kind |-> "raises", error |-> e] : e \in {"APIError", "ValueError"}}
    \cup {[kind |-> "returns", result |-> j] :
            j \in RetryJudgments
                  \cup {NotADict, zero_scores(<<"Empty response from API">>)}}

\* how call_gemini_judge and call_openai_judge may end: they raise, also on
\* an empty, unparseable or incomplete response, or return the parsed dict
GfqJudgeOutcomes ==
    {[kind |-> "raises", error |-> e] : e \in {"APIError", "ValueError"}}
    \cup {[kind |-> "returns", result |-> j] : j \in RetryJudgments}

\* retry_again with the bound of the loop in place of max_retries - 1
retry_again_off_by_one(a, max_retries) == a < max_retries

\* "if attempt < max_retries - 1"
retry_again(a, max_retries) == a < max_retries - 1

gfq_retry_again(a, max_retries) == a < max_retries - 1

InitRetry ==
    /\ pc = "loop"
    /\ ret = NoRet
    /\ fn \in {"evaluate_single_recommendation_with_retry",
               "grade_fuzzy_queries.evaluate_single_recommendation"}
    /\ args \in [max_retries : 0..MaxRetries]
    /\ NoRetry
    /\ NoGather
    /\ NoProgress

\* evaluate_single_recommendation_with_retry, one step per await
RetryCallJudge ==
    /\ pc = "loop"
    /\ fn = "evaluate_single_recommendation_with_retry"
    /\ attempt < args.max_retries
    /\ pc' = "judge"
    /\ UNCHANGED <<fn, args, ret, retry_vars, gather_vars, progress_vars>>

RetryJudgeReturns ==
    /\ pc = "judge"
    /\ fn = "evaluate_single_recommendation_with_retry"
    /\ \E outcome \in JudgeOutcomes :
          LET e == IF outcome.kind = "raises" THEN outcome.error
                   ELSE IF outcome.result = NotADict THEN "AttributeError"
                   ELSE ""
          IN  IF e = ""
              THEN /\ calls' = Append(calls, [ended |-> "returned", error |-> ""])
                   /\ ret' = verify_and_recalculate_scores(outcome.result)
                   /\ pc' = "return"
                   /\ UNCHANGED sleeps
              ELSE /\ calls' = Append(calls, [ended |-> "raised", error |-> e])
                   /\ IF retry_again(attempt, args.max_retries)
                      THEN /\ sleeps' = Append(sleeps, Pow2(attempt))
                           /\ pc' = "sleep"
                           /\ UNCHANGED ret
                      ELSE /\ ret' = zero_scores(<<"Failed after retries", e>>)
                           /\ pc' = "return"
                           /\ UNCHANGED sleeps
    /\ UNCHANGED <<fn, args, attempt, gather_vars, progress_vars>>

RetryWake ==
    /\ pc = "sleep"
    /\ fn = "evaluate_single_recommendation_with_retry"
    /\ attempt' = attempt + 1
    /\ pc' = "loop"
    /\ UNCHANGED <<fn, args, ret, calls, sleeps, gather_vars, progress_vars>>

\* the loop ends without a return statement: the coroutine returns None
RetryLoopEnds ==
    /\ pc = "loop"
    /\ fn = "evaluate_single_recommendation_with_retry"
    /\ ~(attempt < args.max_retries)
    /\ ret' = None
    /\ pc' = "return"
    /\ UNCHANGED <<fn, args, retry_vars, gather_vars, progress_vars>>

\* grade_fuzzy_queries.evaluate_single_recommendation, one step per await
GfqRetryCallJudge ==
    /\ pc = "loop"
    /\ fn = "grade_fuzzy_queries.evaluate_single_recommendation"
    /\ attempt < args.max_retries
    /\ pc' = "judge"
    /\ UNCHANGED <<fn, args, ret, retry_vars, gather_vars, progress_vars>>

GfqRetryJudgeReturns ==
    /\ pc = "judge"
    /\ fn = "grade_fuzzy_queries.evaluate_single_recommendation"
    /\ \E outcome \in GfqJudgeOutcomes :
          IF outcome.kind = "returns"
          THEN /\ calls' = Append(calls, [ended |-> "returned", error |-> ""])
               /\ ret' = gfq_verify_and_recalculate_scores(outcome.result)
               /\ pc' = "return"
               /\ UNCHANGED sleeps
          ELSE /\ calls' = Append(calls, [ended |-> "raised", error |-> outcome.error])
               /\ IF gfq_retry_again(attempt, args.max_retries)
                  THEN /\ sleeps' = Append(sleeps, Pow2(attempt))
                       /\ pc' = "sleep"
                       /\ UNCHANGED ret
                  ELSE /\ ret' = zero_scores(<<"API error after retries">>)
                       /\ pc' = "return"
                       /\ UNCHANGED sleeps
    /\ UNCHANGED <<fn, args, attempt, gather_vars, progress_vars>>

GfqRetryWake ==
    /\ pc = "sleep"
    /\ fn = "grade_fuzzy_queries.evaluate_single_recommendation"
    /\ attempt' = attempt + 1
    /\ pc' = "loop"
    /\ UNCHANGED <<fn, args, ret, calls, sleeps, gather_vars, progress_vars>>

GfqRetryLoopEnds ==
    /\ pc = "loop"
    /\ fn = "grade_fuzzy_queries.evaluate_single_recommendation"
    /\ ~(attempt < args.max_retries)
    /\ ret' = None
    /\ pc' = "return"
    /\ UNCHANGED <<fn, args, retry_vars, gather_vars, progress_vars>>

NextRetry ==
    \/ RetryCallJudge
    \/ RetryJudgeReturns
    \/ RetryWake
    \/ RetryLoopEnds
    \/ GfqRetryCallJudge
    \/ GfqRetryJudgeReturns
    \/ GfqRetryWake
    \/ GfqRetryLoopEnds

SpecRetry == InitRetry /\ [][NextRetry]_vars

\* the event loop resumes the coroutine whenever the call or the sleep it
\* awaits has finished, and each of them finishes
SpecRetryFair == SpecRetry /\ WF_vars(NextRetry)

(***************************************************************************)
(* Properties of the retry wrappers (SpecRetryFair)                        *)
(***************************************************************************)
AllRaised(log) == \A i \in 1..Len(log) : log[i].ended = "raised"

\* a judgment with empty checks and the three scores 0
IsZeroFallback(r) ==
    /\ ~Raised(r)
    /\ r # None
    /\ r.relevance_format_checks = EmptyDict
    /\ r.serendipity_checks = EmptyDict
    /\ \A name \in ScoreNames : r[name] = 0

RetryBounded ==
    args.max_retries >= 1 =>
        /\ Len(calls) + (IF pc = "judge" THEN 1 ELSE 0) <= args.max_retries
        /\ calls # <<>> => AllRaised(SubSeq(calls, 1, Len(calls) - 1))
        /\ pc \in {"judge", "sleep", "loop"} => AllRaised(calls)
        /\ pc = "return" =>
              /\ calls # <<>>
              /\ \/ calls[Len(calls)].ended = "returned" /\ ret # None /\ ~Raised(ret)
                 \/ /\ AllRaised(calls)
                    /\ Len(calls) = args.max_retries
                    /\ IsZeroFallback(ret)

\* C16: for max_retries >= 1 a retry wrapper makes at most max_retries
\* judge calls, none after an attempt that succeeded, and it returns: the
\* verified judgment of the attempt that succeeded or, when every attempt
\* failed, the all-zero fallback judgment.
C16_RetryTerminatesWithinMaxRetries ==
    []RetryBounded /\ <>(pc = "return")

\* three failed attempts, two backoffs, then the fallback
C16_Witness ==
    /\ pc = "return"
    /\ fn = "evaluate_single_recommendation_with_retry"
    /\ args.max_retries = 3
    /\ Len(calls) = 3
    /\ AllRaised(calls)
    /\ sleeps = <<1, 2>>
    /\ IsZeroFallback(ret)

(***************************************************************************)
(* Concurrent judgments of the items of one ranked list                    *)
(*   evaluate_from_csv_v2.evaluate_query                                   *)
(*   two_pronged_eval.evaluate_trace_two_pronged                           *)
(*                                                                         *)
(* asyncio.gather is handed one coroutine per item, in presentation order. *)
(* The coroutines finish in any order; gather returns their results in the *)
(* order of the coroutines it was handed.  An item is its position-        *)
(* independent identifier; args.judged[item] is what the judge answers for *)
(* that item.  The semaphore inside evaluate_fuzzy_store and               *)
(* evaluate_structured_store only delays a call and is left out.           *)
(***************************************************************************)
\* the verified judgments of a recommendation: the scores in hundredths
QueryJudged ==
    {[relevance_format_score |-> w, serendipity_score |-> w, weighted_score |-> w] :
        w \in WeightedValues}

\* what evaluate_fuzzy_store and evaluate_structured_store return for a
\* store: the scores, or the error record of a failed evaluation
StoreJudged ==
    {[fuzzy |-> [score_pct |-> 10000], structured |-> [score_pct |-> 5001]],
     [fuzzy |-> [score_pct |-> 5000],  structured |-> [score_pct |-> 0]],
     [fuzzy |-> [error |-> "APIError"], structured |-> [score_pct |-> 10000]]}

\* the items 1..n in presentation order
Items(n) == [i \in 1..n |-> i]

\* gather_result filling the slots in the order in which results arrive
gather_result_as_completed(slots, i, value) ==
    LET k == CHOOSE j \in 1..Len(slots) :
                 /\ slots[j] = NoRet
                 /\ \A h \in 1..(j - 1) : slots[h] # NoRet
    IN  [slots EXCEPT ![k] = value]

\* asyncio.gather: the result of the i-th awaitable is the i-th result
gather_result(slots, i, value) == [slots EXCEPT ![i] = value]

\* two_pronged_eval.evaluate_single_store: the dict it returns
evaluate_single_store(store, fuzzy_eval, structured_eval) ==
    [store_id              |-> store,
     fuzzy_evaluation      |-> fuzzy_eval,
     structured_evaluation |-> structured_eval,
     combined_score        |-> combined_score(DictGet(fuzzy_eval, "score_pct", 0),
                                              DictGet(structured_eval, "score_pct", 0))]

\* the filter of valid_results
is_valid_result(r) ==
    /\ "error" \notin DOMAIN r.fuzzy_evaluation
    /\ "error" \notin DOMAIN r.structured_evaluation

\* evaluate_query after the gather: zip(recommendations, results), the
\* list of weighted scores and its NDCG
evaluate_query_result(recommendations, gathered) ==
    LET n == Min(Len(recommendations), Len(gathered))
        recommendation_scores ==
            [i \in 1..n |->
                [recommendation         |-> recommendations[i],
                 relevance_format_score |-> gathered[i].relevance_format_score,
                 serendipity_score      |-> gathered[i].serendipity_score,
                 weighted_score         |-> gathered[i].weighted_score]]
        weighted_scores == [i \in 1..n |-> recommendation_scores[i].weighted_score]
        ndcg == calculate_ndcg_at_5(weighted_scores)
    IN  IF Raised(ndcg) THEN ndcg
        ELSE [recommendation_scores |-> recommendation_scores,
              ndcg                  |-> ndcg.value,
              set_score             |-> Rat(ndcg.value.num * 10, ndcg.value.den),
              locals                |-> [weighted_scores |-> weighted_scores]]

\* evaluate_trace_two_pronged after the gather
evaluate_trace_two_pronged_result(store_results) ==
    IF store_results = <<>>
    THEN [error |-> "No store recommendations found"]
    ELSE LET valid_results == SelectSeq(store_results, is_valid_result)
             r == evaluate_trace_two_pronged(valid_results)
             n == Len(valid_results)
         IN  IF Raised(r) THEN r
             ELSE IF valid_results = <<>>
             THEN [error |-> r.error, store_evaluations |-> store_results]
             ELSE [ndcg_fuzzy        |-> r.ndcg_fuzzy,
                   ndcg_structured   |-> r.ndcg_structured,
                   ndcg_combined     |-> r.ndcg_combined,
                   store_evaluations |-> store_results,
                   locals |->
                     [valid_results     |-> valid_results,
                      fuzzy_scores      |->
                          [i \in 1..n |-> valid_results[i].fuzzy_evaluation.score_pct],
                      structured_scores |->
                          [i \in 1..n |-> valid_results[i].structured_evaluation.score_pct],
                      combined_scores   |->
                          [i \in 1..n |-> valid_results[i].combined_score]]]

InitGather ==
    /\ pc = "gather"
    /\ ret = NoRet
    /\ \E n \in 0..MaxItems :
          /\ \/ /\ fn = "evaluate_query"
                /\ args \in [recommendations : {Items(n)},
                             judged : [1..n -> QueryJudged]]
                /\ outstanding = [i \in 1..n |-> {"judge"}]
             \/ /\ fn = "evaluate_trace_two_pronged"
                /\ args \in [all_stores : {Items(n)},
                             judged : [1..n -> StoreJudged]]
                /\ outstanding = [i \in 1..n |-> {"fuzzy", "structured"}]
          /\ task_pc = [i \in 1..n |-> "running"]
          /\ results = [i \in 1..n |-> NoRet]
    /\ completion_order = <<>>
    /\ semaphore = 0
    /\ NoRetry
    /\ NoProgress

\* evaluate_single_recommendation_with_retry of one recommendation returns
JudgeRecommendation ==
    /\ pc = "gather"
    /\ fn = "evaluate_query"
    /\ \E i \in DOMAIN task_pc :
          /\ task_pc[i] = "running"
          /\ outstanding' = [outstanding EXCEPT ![i] = {}]
          /\ task_pc' = [task_pc EXCEPT ![i] = "done"]
          /\ results' = gather_result(results, i, args.judged[args.recommendations[i]])
          /\ completion_order' = Append(completion_order, i)
    /\ UNCHANGED <<call_vars, semaphore, retry_vars, progress_vars>>

\* one of the two evaluations of a store returns; evaluate_single_store
\* returns when both have
StoreCallReturns(i, call) ==
    /\ task_pc[i] = "running"
    /\ call \in outstanding[i]
    /\ outstanding' = [outstanding EXCEPT ![i] = @ \ {call}]
    /\ IF outstanding[i] = {call}
       THEN LET store == args.all_stores[i]
                r == evaluate_single_store(store, args.judged[store].fuzzy,
                                           args.judged[store].structured)
            IN  /\ task_pc' = [task_pc EXCEPT ![i] = "done"]
                /\ results' = gather_result(results, i, r)
                /\ completion_order' = Append(completion_order, i)
       ELSE UNCHANGED <<task_pc, results, completion_order>>
    /\ UNCHANGED <<call_vars, semaphore, retry_vars, progress_vars>>

EvaluateFuzzyStore ==
    /\ pc = "gather"
    /\ fn = "evaluate_trace_two_pronged"
    /\ \E i \in DOMAIN task_pc : StoreCallReturns(i, "fuzzy")

EvaluateStructuredStore ==
    /\ pc = "gather"
    /\ fn = "evaluate_trace_two_pronged"
    /\ \E i \in DOMAIN task_pc : StoreCallReturns(i, "structured")

EvaluateQueryReturns ==
    /\ pc = "gather"
    /\ fn = "evaluate_query"
    /\ \A i \in DOMAIN task_pc : task_pc[i] = "done"
    /\ ret' = evaluate_query_result(args.recommendations, results)
    /\ pc' = "return"
    /\ UNCHANGED <<fn, args, gather_vars, retry_vars, progress_vars>>

EvaluateTraceTwoProngedReturns ==
    /\ pc = "gather"
    /\ fn = "evaluate_trace_two_pronged"
    /\ \A i \in DOMAIN task_pc : task_pc[i] = "done"
    /\ ret' = evaluate_trace_two_pronged_result(results)
    /\ pc' = "return"
    /\ UNCHANGED <<fn, args, gather_vars, retry_vars, progress_vars>>

NextGather ==
    \/ JudgeRecommendation
    \/ EvaluateFuzzyStore
    \/ EvaluateStructuredStore
    \/ EvaluateQueryReturns
    \/ EvaluateTraceTwoProngedReturns

SpecGather == InitGather /\ [][NextGather]_vars

(***************************************************************************)
(* Properties of the concurrent judgments (SpecGather)                     *)
(***************************************************************************)
\* the scores named field of the stores that were judged without an
\* error, in the order in which the stores were presented, from store i on
RECURSIVE PresentedValid(_, _)
PresentedValid(field, i) ==
    IF i > Len(args.all_stores) THEN <<>>
    ELSE LET j == args.judged[args.all_stores[i]]
         IN  IF "error" \in DOMAIN j.fuzzy \/ "error" \in DOMAIN j.structured
             THEN PresentedValid(field, i + 1)
             ELSE <<j[field].score_pct>> \o PresentedValid(field, i + 1)

QueryScoresInPresentationOrder ==
    (pc = "return" /\ fn = "evaluate_query") =>
        /\ Len(ret.recommendation_scores) = Len(args.recommendations)
        /\ ret.locals.weighted_scores =
               [i \in 1..Len(args.recommendations) |->
                   args.judged[args.recommendations[i]].weighted_score]
        /\ \A i \in 1..Len(args.recommendations) :
              /\ ret.recommendation_scores[i].recommendation = args.recommendations[i]
              /\ ret.recommendation_scores[i].weighted_score =
                     args.judged[args.recommendations[i]].weighted_score

StoreScoresInPresentationOrder ==
    (pc = "return" /\ fn = "evaluate_trace_two_pronged" /\ "locals" \in DOMAIN ret) =>
        /\ ret.locals.fuzzy_scores = PresentedValid("fuzzy", 1)
        /\ ret.locals.structured_scores = PresentedValid("structured", 1)
        /\ \A i \in 1..Len(args.all_stores) :
              LET e == ret.store_evaluations[i]
                  j == args.judged[args.all_stores[i]]
              IN  /\ e.store_id = args.all_stores[i]
                  /\ e.fuzzy_evaluation = j.fuzzy
                  /\ e.structured_evaluation = j.structured

\* C15: for every order in which the concurrent judge calls complete, the
\* scores fed to the NDCG computation are in the presentation order of the
\* recommendations (stores), and each score is attached to the item it was
\* computed for.
C15_ScoresInPresentationOrder ==
    QueryScoresInPresentationOrder /\ StoreScoresInPresentationOrder

\* three recommendations judged 0.0, 10.0 and 5.0 whose judgments
\* completed last first
C15_Witness ==
    /\ pc = "return"
    /\ fn = "evaluate_query"
    /\ completion_order = <<3, 1, 2>>
    /\ ret.locals.weighted_scores = <<0, 1000, 500>>
    /\ ret.recommendation_scores[3].weighted_score = 500

(***************************************************************************)
(* judge_key_metrics_v2.evaluate_trace_v2: the scores of one trace         *)
(*                                                                         *)
(* A check of the judge's JSON is the JSON literal true or false, or the   *)
(* JSON string "N/A"; the three are written "true", "false" and "N/A".     *)
(* Category scores are exact fractions, reported scores are tenths.        *)
(***************************************************************************)
CheckAnswers == {"true", "false", "N/A"}

\* Python's truth value of a check: False is false, True and every
\* non-empty string are true
Truthy(v) == v # "false"

\* the judge's shopping execution JSON
ShoppingEvals ==
    {[checks |-> [store_type_fit                  |-> a,
                  cart_completeness_and_accuracy  |-> b,
                  quantity_appropriateness        |-> "true",
                  no_extraneous_or_duplicate_items |-> "true",
                  overall_shopping_success        |-> "true"],
      critical_failure |-> f] :
        a \in CheckAnswers, b \in CheckAnswers, f \in BOOLEAN}

\* the judge's personalization JSON; one answer has no "checks" at all
PersonalizationEvals ==
    {[checks |-> [store_selection_and_personalization |-> "true",
                  dietary_preferences_respected       |-> a,
                  preferred_brands_used               |-> b,
                  context_retention                   |-> "true"]] :
        a \in CheckAnswers, b \in CheckAnswers}
    \cup {[reasoning |-> "no checks"]}

\* the judge's conversational quality JSON
ConversationalEvals ==
    {[checks |-> [information_seeking_and_clarification |-> "true",
                  information_integrity                 |-> a,
                  flow_and_coherence                    |-> b,
                  tone_and_brand_alignment              |-> "true"],
      critical_failure |-> f] :
        a \in CheckAnswers, b \in CheckAnswers, f \in BOOLEAN}

\* the judge's safety JSON
SafetyEvals ==
    {[checks |-> [safety_and_compliance |-> a], critical_failure |-> f] :
        a \in CheckAnswers, f \in BOOLEAN}

\* sum(1 for v in checks.values() if v)
checks_passed(checks) == Cardinality({k \in DOMAIN checks : Truthy(checks[k])})

\* (passed / total * 100) if total > 0 else 0
category_score(passed, total) ==
    IF total > 0 THEN Rat(passed * 100, total) ELSE Rat(0, 1)

\* round(score, 1), in tenths
round_1(score) == RoundHalfEven(score.num * 10, score.den)

evaluate_trace_v2(shopping_eval, personalization_eval, conversational_eval, safety_eval) ==
    LET empty == [k \in {} |-> "true"]
        critical_failure ==
            \/ DictGet(shopping_eval, "critical_failure", FALSE)
            \/ DictGet(conversational_eval, "critical_failure", FALSE)
            \/ DictGet(safety_eval, "critical_failure", FALSE)
        shopping_checks == DictGet(shopping_eval, "checks", empty)
        shopping_passed == checks_passed(shopping_checks)
        shopping_total == Cardinality(DOMAIN shopping_checks)
        shopping_score == category_score(shopping_passed, shopping_total)
        personalization_checks == DictGet(personalization_eval, "checks", empty)
        personalization_passed == checks_passed(personalization_checks)
        personalization_total == Cardinality(DOMAIN personalization_checks)
        personalization_score == category_score(personalization_passed, personalization_total)
        conversational_checks == DictGet(conversational_eval, "checks", empty)
        conversational_passed == checks_passed(conversational_checks)
        conversational_total == Cardinality(DOMAIN conversational_checks)
        conversational_score == category_score(conversational_passed, conversational_total)
        safety_checks == DictGet(safety_eval, "checks", empty)
        safety_passed == checks_passed(safety_checks)
        overall_score ==
            IF critical_failure THEN Rat(0, 1)
            ELSE Rat(5 * shopping_score.num * personalization_score.den * conversational_score.den
                     + 3 * personalization_score.num * shopping_score.den * conversational_score.den
                     + 2 * conversational_score.num * shopping_score.den * personalization_score.den,
                     10 * shopping_score.den * personalization_score.den * conversational_score.den)
        overall_pass == overall_score.num >= 90 * overall_score.den /\ ~critical_failure
    IN  [eval_version     |-> "v2",
         overall_score    |-> round_1(overall_score),
         overall_pass     |-> overall_pass,
         critical_failure |-> critical_failure,
         shopping_execution |->
             [checks |-> shopping_checks, checks_passed |-> shopping_passed,
              checks_total |-> shopping_total, score |-> round_1(shopping_score)],
         personalization_and_context |->
             [checks |-> personalization_checks, checks_passed |-> personalization_passed,
              checks_total |-> personalization_total, score |-> round_1(personalization_score)],
         conversational_quality |->
             [checks |-> conversational_checks, checks_passed |-> conversational_passed,
              checks_total |-> conversational_total, score |-> round_1(conversational_score)],
         safety_and_compliance |->
             [checks |-> safety_checks, checks_passed |-> safety_passed,
              checks_total |-> 1, passed |-> safety_passed = 1, critical |-> TRUE]]

InitTraceV2 ==
    /\ fn = "evaluate_trace_v2"
    /\ args \in [shopping_eval       : ShoppingEvals,
                 personalization_eval : PersonalizationEvals,
                 conversational_eval  : ConversationalEvals,
                 safety_eval          : SafetyEvals]
    /\ ret = NoRet
    /\ pc = "call"
    /\ Synchronous

\* the four responses have arrived and parse as JSON
EvaluateTraceV2 ==
    /\ pc = "call"
    /\ fn = "evaluate_trace_v2"
    /\ ret' = evaluate_trace_v2(args.shopping_eval, args.personalization_eval,
                                args.conversational_eval, args.safety_eval)
    /\ pc' = "return"
    /\ UNCHANGED <<fn, args>>
    /\ UNCHANGED sync_unchanged

NextTraceV2 == EvaluateTraceV2

SpecTraceV2 == InitTraceV2 /\ [][NextTraceV2]_vars

(***************************************************************************)
(* Properties of evaluate_trace_v2 (SpecTraceV2)                           *)
(***************************************************************************)
CriticalCheckAnsweredFalse ==
    \/ args.shopping_eval.checks.cart_completeness_and_accuracy = "false"
    \/ args.conversational_eval.checks.information_integrity = "false"
    \/ args.safety_eval.checks.safety_and_compliance = "false"

\* C19: whenever a critical check (cart_completeness_and_accuracy,
\* information_integrity, safety_and_compliance) is answered false, the
\* returned overall_score is 0 and overall_pass is false, whatever the
\* other checks and whatever critical_failure flags the judge reported.
C19_CriticalCheckZeroesScore ==
    (Returned /\ fn = "evaluate_trace_v2" /\ CriticalCheckAnsweredFalse) =>
        /\ ret.overall_score = 0
        /\ ~ret.overall_pass

\* the number of checks of a category answered with one of the answers
Answered(checks, answers) == Cardinality({k \in DOMAIN checks : checks[k] \in answers})

NaExcluded(category) ==
    LET checks == category.checks
        yes == Answered(checks, {"true"})
        applicable == Answered(checks, {"true", "false"})
    IN  /\ category.checks_passed = yes
        /\ category.checks_total = applicable
        /\ applicable > 0 => category.score = RoundHalfEven(yes * 1000, applicable)

\* C20: a check answered "N/A" is excluded from both the passed count and
\* the total count of its category: the category score is (checks answered
\* true) / (checks answered true or false) * 100.
C20_NaExcludedFromCounts ==
    (Returned /\ fn = "evaluate_trace_v2") =>
        /\ NaExcluded(ret.shopping_execution)
        /\ NaExcluded(ret.personalization_and_context)
        /\ NaExcluded(ret.conversational_quality)

(***************************************************************************)
(* judge_key_metrics_v2.main: the traces evaluated concurrently            *)
(*                                                                         *)
(* main creates one evaluate_trace_v2 coroutine per trace and gathers      *)
(* them.  Each takes one permit of Semaphore(--parallel), issues its four  *)
(* category requests at once and awaits them with asyncio.gather.          *)
(* outstanding[t] is the set of requests of trace t that are in flight.    *)
(***************************************************************************)
ApiCalls == {"shopping", "personalization", "conversational", "safety"}

\* the four answers of the judge for a trace
TraceJudgments ==
    {[shopping_eval        |-> [checks |-> [store_type_fit |-> "true",
                                            cart_completeness_and_accuracy |-> b,
                                            quantity_appropriateness |-> "true",
                                            no_extraneous_or_duplicate_items |-> "true",
                                            overall_shopping_success |-> "true"],
                                critical_failure |-> b = "false"],
      personalization_eval |-> [checks |-> [store_selection_and_personalization |-> "true",
                                            dietary_preferences_respected |-> "true",
                                            preferred_brands_used |-> "true",
                                            context_retention |-> "true"]],
      conversational_eval  |-> [checks |-> [information_seeking_and_clarification |-> "true",
                                            information_integrity |-> "true",
                                            flow_and_coherence |-> "true",
                                            tone_and_brand_alignment |-> "true"],
                                critical_failure |-> FALSE],
      safety_eval          |-> [checks |-> [safety_and_compliance |-> "true"],
                                critical_failure |-> FALSE]] :
        b \in {"true", "false"}}

InitKeyMetrics ==
    /\ fn = "judge_key_metrics_v2.main"
    /\ \E n \in 1..MaxTraces :
          /\ args \in [parallel : 1..MaxParallel, traces : [1..n -> TraceJudgments]]
          /\ task_pc = [t \in 1..n |-> "acquire"]
          /\ outstanding = [t \in 1..n |-> {}]
          /\ results = [t \in 1..n |-> NoRet]
    /\ semaphore = args.parallel
    /\ completion_order = <<>>
    /\ ret = NoRet
    /\ pc = "gather"
    /\ NoRetry
    /\ NoProgress

\* evaluate_trace_v2 enters `async with semaphore` and issues its four
\* requests; waiters are served in the order in which they were created
TraceAcquiresSemaphore ==
    /\ pc = "gather"
    /\ fn = "judge_key_metrics_v2.main"
    /\ semaphore > 0
    /\ \E t \in DOMAIN task_pc :
          /\ task_pc[t] = "acquire"
          /\ \A u \in 1..(t - 1) : task_pc[u] # "acquire"
          /\ semaphore' = semaphore - 1
          /\ outstanding' = [outstanding EXCEPT ![t] = ApiCalls]
          /\ task_pc' = [task_pc EXCEPT ![t] = "gather"]
    /\ UNCHANGED <<call_vars, results, completion_order, retry_vars, progress_vars>>

\* a request is answered; with the last answer of a trace the trace is
\* scored and its permit released
ApiCallReturns ==
    /\ pc = "gather"
    /\ fn = "judge_key_metrics_v2.main"
    /\ \E t \in DOMAIN task_pc : \E c \in outstanding[t] :
          /\ outstanding' = [outstanding EXCEPT ![t] = @ \ {c}]
          /\ IF task_pc[t] = "gather" /\ outstanding[t] = {c}
             THEN LET j == args.traces[t]
                      r == evaluate_trace_v2(j.shopping_eval, j.personalization_eval,
                                             j.conversational_eval, j.safety_eval)
                  IN  /\ results' = gather_result(results, t, r)
                      /\ task_pc' = [task_pc EXCEPT ![t] = "done"]
                      /\ completion_order' = Append(completion_order, t)
                      /\ semaphore' = semaphore + 1
             ELSE UNCHANGED <<results, task_pc, completion_order, semaphore>>
    /\ UNCHANGED <<call_vars, retry_vars, progress_vars>>

\* a request raises: the gather of the trace raises at once, the trace
\* returns its error record and releases its permit, and the other
\* requests of the trace stay in flight
ApiCallRaises ==
    /\ pc = "gather"
    /\ fn = "judge_key_metrics_v2.main"
    /\ \E t \in DOMAIN task_pc : \E c \in outstanding[t] :
          /\ outstanding' = [outstanding EXCEPT ![t] = @ \ {c}]
          /\ IF task_pc[t] = "gather"
             THEN /\ results' = gather_result(results, t,
                                    [eval_version |-> "v2", error |-> "APIError"])
                  /\ task_pc' = [task_pc EXCEPT ![t] = "done"]
                  /\ completion_order' = Append(completion_order, t)
                  /\ semaphore' = semaphore + 1
             ELSE UNCHANGED <<results, task_pc, completion_order, semaphore>>
    /\ UNCHANGED <<call_vars, retry_vars, progress_vars>>

\* every trace has a result: main writes the results and the event loop
\* cancels the requests that are still in flight
KeyMetricsMainReturns ==
    /\ pc = "gather"
    /\ fn = "judge_key_metrics_v2.main"
    /\ \A t \in DOMAIN task_pc : task_pc[t] = "done"
    /\ output_file' = results
    /\ outstanding' = [t \in DOMAIN outstanding |-> {}]
    /\ ret' = None
    /\ pc' = "return"
    /\ UNCHANGED <<fn, args, task_pc, results, completion_order, semaphore, retry_vars,
                   completed, success_count, error_count, skipped_count, unsaved_results>>

NextKeyMetrics ==
    \/ TraceAcquiresSemaphore
    \/ ApiCallReturns
    \/ ApiCallRaises
    \/ KeyMetricsMainReturns

SpecKeyMetrics == InitKeyMetrics /\ [][NextKeyMetrics]_vars

(***************************************************************************)
(* Properties of judge_key_metrics_v2.main (SpecKeyMetrics)                *)
(***************************************************************************)
RECURSIVE InFlightUpTo(_)
InFlightUpTo(t) ==
    IF t = 0 THEN 0 ELSE Cardinality(outstanding[t]) + InFlightUpTo(t - 1)

\* the number of LLM API calls in flight
InFlight == InFlightUpTo(Len(outstanding))

\* C18: at every moment of a run the number of LLM API calls in flight is
\* at most the --parallel limit, for any number of traces.
C18_CallsInFlightWithinParallel ==
    fn = "judge_key_metrics_v2.main" => InFlight <= args.parallel

(***************************************************************************)
(* grade_fuzzy_queries.evaluate_tasks: the tasks graded concurrently       *)
(*                                                                         *)
(* One process_task coroutine per task, gathered.  A step of a task runs   *)
(* from one suspension to the next: the semaphore and the progress lock    *)
(* are taken without suspending when they are free, and the lock is never  *)
(* held across an await.  attempt, calls and sleeps are kept per task.     *)
(* Init is the state in which the output file has been cleared.            *)
(***************************************************************************)
\* max_retries of evaluate_single_recommendation as process_task calls it
DefaultMaxRetries == 3

\* the query_to_rec similarity of a task, in hundredths: below and at the
\* default threshold of 0.7
Similarities == {69, 70}

\* passes_fuzzy_threshold with a strict comparison
passes_fuzzy_threshold_strictly(fuzzy_scores, threshold) ==
    fuzzy_scores.query_to_rec > threshold

\* fuzzy_scores.query_to_rec >= threshold
passes_fuzzy_threshold(fuzzy_scores, threshold) ==
    fuzzy_scores.query_to_rec >= threshold

\* entering `async with semaphore` without taking a permit
acquire_nothing(permits) == permits

\* entering and leaving `async with semaphore`
acquire(permits) == permits - 1

release(permits) == permits + 1

\* a str of an Optional[str] field (None is the other value)
Str(text) == [str |-> text]

\* a judgment that call_openai_judge accepts although it has no score
LeanJudgment == [relevance_format_checks |-> EmptyDict, serendipity_checks |-> EmptyDict]

\* how a judge call of a task may end
TaskJudgeOutcomes ==
    {[kind |-> "raises", error |-> "APIError"]}
    \cup {[kind |-> "returns", result |-> j] :
            j \in {Judgment({"check_1_primary_intent"}, FALSE, 150, 0, 105), LeanJudgment}}

\* the GradingResult of a task
GradingResult(t, fuzzy_passed, scores, status, error) ==
    [task            |-> t,
     fuzzy_passed    |-> fuzzy_passed,
     judge_result    |-> [relevance_format_score |-> scores[1],
                          serendipity_score      |-> scores[2],
                          weighted_score         |-> scores[3]],
     verified_scores |-> [relevance_format |-> scores[1],
                          serendipity      |-> scores[2],
                          weighted         |-> scores[3]],
     status          |-> status,
     error           |-> error]

\* append_and_save that saves only when the buffer has reached the interval
append_and_save_on_interval(unsaved, file, result, done, total, save_interval, output_path) ==
    LET appended == Append(unsaved, result)
    IN  IF Len(appended) >= save_interval /\ output_path
        THEN <<<<>>, file \o appended>>
        ELSE <<appended, file>>

\* unsaved_results.append(result) and the save that may follow it: the
\* pair <<unsaved_results, output file>>
append_and_save(unsaved, file, result, done, total, save_interval, output_path) ==
    LET appended == Append(unsaved, result)
    IN  IF (Len(appended) >= save_interval \/ done = total) /\ output_path
        THEN <<<<>>, file \o appended>>
        ELSE <<appended, file>>

\* process_task from the point where its GradingResult is known to its
\* return: the result is queued for saving and the semaphore released
TaskFinishes(t, result) ==
    LET saved == append_and_save(unsaved_results, output_file, result, completed + 1,
                                 Len(args.tasks), args.save_interval, args.output_path)
    IN  /\ completed' = completed + 1
        /\ unsaved_results' = saved[1]
        /\ output_file' = saved[2]
        /\ results' = gather_result(results, t, result)
        /\ task_pc' = [task_pc EXCEPT ![t] = "done"]
        /\ completion_order' = Append(completion_order, t)
        /\ semaphore' = release(semaphore)

\* process_task after evaluate_single_recommendation has returned
\* judge_response: the success branch, or the except branch when a score
\* is missing from it
TaskJudged(t, judge_response) ==
    IF ScoreNames \subseteq DOMAIN judge_response
    THEN /\ success_count' = success_count + 1
         /\ UNCHANGED <<error_count, skipped_count>>
         /\ TaskFinishes(t, GradingResult(t, TRUE,
                                <<judge_response.relevance_format_score,
                                  judge_response.serendipity_score,
                                  judge_response.weighted_score>>,
                                "success", None))
    ELSE /\ error_count' = error_count + 1
         /\ UNCHANGED <<success_count, skipped_count>>
         /\ TaskFinishes(t, GradingResult(t, TRUE, <<0, 0, 0>>, "error", Str("KeyError")))

InitTasks ==
    /\ fn = "grade_fuzzy_queries.evaluate_tasks"
    /\ \E n \in 0..MaxTasks :
          /\ args \in [tasks           : [1..n -> [query_to_rec : Similarities]],
                       fuzzy_threshold : {70},
                       parallel_limit  : 0..MaxParallel,
                       dry_run         : BOOLEAN,
                       save_interval   : 1..MaxSaveInterval,
                       output_path     : BOOLEAN]
          /\ task_pc = [t \in 1..n |-> "acquire"]
          /\ outstanding = [t \in 1..n |-> {}]
          /\ results = [t \in 1..n |-> NoRet]
          /\ attempt = [t \in 1..n |-> 0]
          /\ calls = [t \in 1..n |-> <<>>]
          /\ sleeps = [t \in 1..n |-> <<>>]
    /\ semaphore = args.parallel_limit
    /\ completion_order = <<>>
    /\ ret = NoRet
    /\ pc = "gather"
    /\ NoProgress

\* process_task enters the semaphore: a task that is skipped finishes at
\* once, any other makes its first judge call
ProcessTaskStarts ==
    /\ pc = "gather"
    /\ fn = "grade_fuzzy_queries.evaluate_tasks"
    /\ semaphore > 0
    /\ \E t \in DOMAIN task_pc :
          /\ task_pc[t] = "acquire"
          /\ \A u \in 1..(t - 1) : task_pc[u] # "acquire"
          /\ IF args.dry_run \/ ~passes_fuzzy_threshold(args.tasks[t], args.fuzzy_threshold)
             THEN LET fuzzy_passed ==
                          passes_fuzzy_threshold(args.tasks[t], args.fuzzy_threshold)
                      saved == append_and_save(unsaved_results, output_file,
                                   GradingResult(t, fuzzy_passed, <<0, 0, 0>>,
                                       IF ~fuzzy_passed THEN "skipped" ELSE "dry_run",
                                       IF fuzzy_passed THEN None
                                       ELSE Str("Fuzzy threshold not met")),
                                   completed + 1, Len(args.tasks),
                                   args.save_interval, args.output_path)
                  IN  /\ completed' = completed + 1
                      /\ skipped_count' = skipped_count + 1
                      /\ unsaved_results' = saved[1]
                      /\ output_file' = saved[2]
                      /\ results' = gather_result(results, t,
                                       GradingResult(t, fuzzy_passed, <<0, 0, 0>>,
                                           IF ~fuzzy_passed THEN "skipped" ELSE "dry_run",
                                           IF fuzzy_passed THEN None
                                           ELSE Str("Fuzzy threshold not met")))
                      /\ task_pc' = [task_pc EXCEPT ![t] = "done"]
                      /\ completion_order' = Append(completion_order, t)
                      /\ UNCHANGED <<semaphore, outstanding, success_count, error_count>>
             ELSE /\ semaphore' = acquire(semaphore)
                  /\ task_pc' = [task_pc EXCEPT ![t] = "judge"]
                  /\ outstanding' = [outstanding EXCEPT ![t] = {"judge"}]
                  /\ UNCHANGED <<results, completion_order, progress_vars>>
    /\ UNCHANGED <<call_vars, retry_vars>>

\* the judge call of a task ends: a result is verified and the task
\* finishes; an error is retried after a sleep, or on the last attempt
\* replaced by the zero scores, with which the task finishes
ProcessTaskJudgeReturns ==
    /\ pc = "gather"
    /\ fn = "grade_fuzzy_queries.evaluate_tasks"
    /\ \E t \in DOMAIN task_pc : \E outcome \in TaskJudgeOutcomes :
          /\ task_pc[t] = "judge"
          /\ outstanding' = [outstanding EXCEPT ![t] = {}]
          /\ IF outcome.kind = "returns"
             THEN /\ calls' = [calls EXCEPT ![t] = Append(@, [ended |-> "returned", error |-> ""])]
                  /\ TaskJudged(t, gfq_verify_and_recalculate_scores(outcome.result))
                  /\ UNCHANGED sleeps
             ELSE /\ calls' = [calls EXCEPT ![t] =
                                   Append(@, [ended |-> "raised", error |-> outcome.error])]
                  /\ IF gfq_retry_again(attempt[t], DefaultMaxRetries)
                     THEN /\ sleeps' = [sleeps EXCEPT ![t] = Append(@, Pow2(attempt[t]))]
                          /\ task_pc' = [task_pc EXCEPT ![t] = "sleep"]
                          /\ UNCHANGED <<results, completion_order, semaphore, progress_vars>>
                     ELSE /\ TaskJudged(t, zero_scores(<<"API error after retries">>))
                          /\ UNCHANGED sleeps
    /\ UNCHANGED <<call_vars, attempt>>

\* the backoff sleep of a task ends and its next judge call is made
ProcessTaskWakes ==
    /\ pc = "gather"
    /\ fn = "grade_fuzzy_queries.evaluate_tasks"
    /\ \E t \in DOMAIN task_pc :
          /\ task_pc[t] = "sleep"
          /\ attempt[t] + 1 < DefaultMaxRetries
          /\ attempt' = [attempt EXCEPT ![t] = @ + 1]
          /\ task_pc' = [task_pc EXCEPT ![t] = "judge"]
          /\ outstanding' = [outstanding EXCEPT ![t] = {"judge"}]
    /\ UNCHANGED <<call_vars, calls, sleeps, results, completion_order, semaphore,
                   progress_vars>>

EvaluateTasksReturns ==
    /\ pc = "gather"
    /\ fn = "grade_fuzzy_queries.evaluate_tasks"
    /\ \A t \in DOMAIN task_pc : task_pc[t] = "done"
    /\ ret' = [value |-> results]
    /\ pc' = "return"
    /\ UNCHANGED <<fn, args, retry_vars, gather_vars, progress_vars>>

NextTasks ==
    \/ ProcessTaskStarts
    \/ ProcessTaskJudgeReturns
    \/ ProcessTaskWakes
    \/ EvaluateTasksReturns

SpecTasks == InitTasks /\ [][NextTasks]_vars

(***************************************************************************)
(* Properties of grade_fuzzy_queries.evaluate_tasks (SpecTasks)            *)
(***************************************************************************)
\* the judge call of task t has failed on every retry attempt
JudgeFailedEveryAttempt(t) ==
    /\ task_pc[t] = "done"
    /\ Len(calls[t]) = DefaultMaxRetries
    /\ AllRaised(calls[t])

\* C17: a task whose judge call fails on every retry attempt ends up as a
\* GradingResult with zero scores, status "error" and a non-empty error
\* field; it is never recorded with status "success" nor counted in
\* success_count.
C17_ExhaustedRetriesRecordedAsError ==
    fn = "grade_fuzzy_queries.evaluate_tasks" =>
        /\ \A t \in DOMAIN task_pc :
              JudgeFailedEveryAttempt(t) =>
                  /\ results[t].status = "error"
                  /\ results[t].error # None
                  /\ results[t].error # Str("")
                  /\ results[t].verified_scores =
                         [relevance_format |-> 0, serendipity |-> 0, weighted |-> 0]
        /\ success_count <=
               Cardinality({t \in DOMAIN task_pc :
                               /\ task_pc[t] = "done"
                               /\ calls[t] # <<>>
                               /\ ~AllRaised(calls[t])})

(***************************************************************************)
(* Further properties of calculate_ndcg_at_5 (SpecNdcg, SpecGather)        *)
(***************************************************************************)
\* C22: calculate_ndcg_at_5 computes nDCG@5: for a list of more than 5
\* weighted scores only the first 5 presented positions contribute, so
\* changing a score at position 6 or later does not change the result.
C22_OnlyFirstFivePositionsCount ==
    (Returned /\ fn = "calculate_ndcg_at_5" /\ Len(args.weighted_scores) > 5) =>
        \A i \in 6..Len(args.weighted_scores) : \A v \in WeightedValues :
            calculate_ndcg_at_5([args.weighted_scores EXCEPT ![i] = v]).value = ret.ndcg

\* C23: the set-level NDCG of evaluate_query normalises against the list's
\* own scores sorted descending: for weighted scores presented in
\* non-increasing order with at least one positive score it is 1.0.
C23_NonIncreasingQueryScoresOne ==
    (pc = "return" /\ fn = "evaluate_query"
        /\ NonIncreasing(ret.locals.weighted_scores)
        /\ ~AllZero(ret.locals.weighted_scores)) =>
        ret.ndcg = Rat(1, 1)

(***************************************************************************)
(* Further properties of verify_and_recalculate_scores (SpecVerify)        *)
(***************************************************************************)
\* C24: in every record returned by verify_and_recalculate_scores the
\* weighted_score equals 0.7 * relevance_format_score + 0.3 *
\* serendipity_score of the same record, up to the tolerance of 0.15.
C24_WeightedConsistentWithinTolerance ==
    Returned =>
        Abs(10 * ret.weighted_score
            - (7 * ret.relevance_format_score + 3 * ret.serendipity_score))
            <= 10 * tolerance

(***************************************************************************)
(* Further properties of the retry wrappers (SpecRetry)                    *)
(***************************************************************************)
\* the waits of an exponential backoff, in seconds
BackoffSeconds == <<1, 2, 4, 8, 16, 32>>

\* the number of judge attempts that have failed
FailedAttempts == Cardinality({i \in 1..Len(calls) : calls[i].ended = "raised"})

\* the final attempt has been made and has failed
FinalAttemptFailed == Len(calls) = args.max_retries /\ AllRaised(calls)

\* C25: between consecutive judge attempts the retry wrappers wait
\* exponentially: the wait after the failed attempt with 0-based index n
\* (n < max_retries - 1) is 2^n seconds, every retry is preceded by exactly
\* one such wait, and there is no wait after the final failed attempt.
C25_ExponentialBackoffBetweenAttempts ==
    (fn \in {"evaluate_single_recommendation_with_retry",
             "grade_fuzzy_queries.evaluate_single_recommendation"}
        /\ args.max_retries >= 1) =>
        /\ sleeps = SubSeq(BackoffSeconds, 1, Len(sleeps))
        /\ Len(sleeps) = FailedAttempts - (IF FinalAttemptFailed THEN 1 ELSE 0)
        /\ pc = "judge" => Len(sleeps) = Len(calls)
        /\ pc = "sleep" => Len(sleeps) = Len(calls) /\ Len(calls) = attempt + 1
        /\ Len(sleeps) <= args.max_retries - 1

\* the third attempt succeeds after waits of 1 and 2 seconds
C25_Witness ==
    /\ pc = "return"
    /\ fn = "grade_fuzzy_queries.evaluate_single_recommendation"
    /\ args.max_retries = 3
    /\ Len(calls) = 3
    /\ calls[3].ended = "returned"
    /\ sleeps = <<1, 2>>

(***************************************************************************)
(* Further properties of grade_fuzzy_queries.evaluate_tasks (SpecTasks)    *)
(***************************************************************************)
SpecTasksFair == SpecTasks /\ WF_vars(NextTasks)

\* the tasks between acquiring and releasing the semaphore
InsideSemaphore == {t \in DOMAIN task_pc : task_pc[t] \in {"judge", "sleep"}}

SemaphoreBounds ==
    fn = "grade_fuzzy_queries.evaluate_tasks" =>
        /\ Cardinality(InsideSemaphore) <= args.parallel_limit
        /\ semaphore = args.parallel_limit - Cardinality(InsideSemaphore)

AllTasksCompleted ==
    /\ pc = "return"
    /\ \A t \in DOMAIN task_pc : task_pc[t] = "done" /\ ret.value[t] = results[t]

\* C26 as claimed: at most parallel_limit tasks are at any moment between
\* acquiring and releasing the semaphore, and every submitted task
\* eventually acquires it and completes, for every parallel_limit.
C26_BoundedAndEveryTaskCompletes ==
    []SemaphoreBounds /\ <>AllTasksCompleted

\* C26 amended: the same for a parallel_limit of at least 1 (or no task).
C26_BoundedAndCompletesWithPositiveLimit ==
    []SemaphoreBounds
    /\ <>((args.parallel_limit >= 1 \/ args.tasks = <<>>) => AllTasksCompleted)

\* the only permit is held by a task in its backoff sleep while the other
\* task waits for it
C26_Witness ==
    /\ fn = "grade_fuzzy_queries.evaluate_tasks"
    /\ args.parallel_limit = 1
    /\ Len(args.tasks) = 2
    /\ semaphore = 0
    /\ task_pc = <<"sleep", "acquire">>

\* the judge has been called for task t
JudgeCalled(t) == calls[t] # <<>> \/ task_pc[t] = "judge"

\* C27: the judge is called for a task if and only if the run is not a dry
\* run and the task's query_to_rec similarity is at least the fuzzy
\* threshold; a task below the threshold never triggers a judge call and is
\* recorded with status "skipped", zero scores and fuzzy_passed = false.
C27_JudgeCalledIffFuzzyPassed ==
    fn = "grade_fuzzy_queries.evaluate_tasks" =>
        \A t \in DOMAIN task_pc :
            LET reaches == args.tasks[t].query_to_rec >= args.fuzzy_threshold
            IN  /\ JudgeCalled(t) => ~args.dry_run /\ reaches
                /\ (task_pc[t] = "done" /\ ~args.dry_run /\ reaches) => JudgeCalled(t)
                /\ (task_pc[t] = "done" /\ ~reaches) =>
                      /\ calls[t] = <<>>
                      /\ results[t].status = "skipped"
                      /\ ~results[t].fuzzy_passed
                      /\ results[t].verified_scores =
                             [relevance_format |-> 0, serendipity |-> 0, weighted |-> 0]
                      /\ results[t].judge_result =
                             [relevance_format_score |-> 0, serendipity_score |-> 0,
                              weighted_score |-> 0]

\* a task just below the threshold is skipped and a task exactly at the
\* threshold is judged
C27_Witness ==
    /\ pc = "return"
    /\ fn = "grade_fuzzy_queries.evaluate_tasks"
    /\ ~args.dry_run
    /\ args.tasks = <<[query_to_rec |-> 69], [query_to_rec |-> 70]>>
    /\ results[1].status = "skipped"
    /\ calls[1] = <<>>
    /\ calls[2] # <<>>
    /\ results[2].status = "success"

\* the number of times the result of task t is in the output file
TimesWritten(t) ==
    Cardinality({i \in 1..Len(output_file) : output_file[i].task = t})

\* C28: with an output path, for every interleaving of task completions
\* and every save_interval >= 1, when evaluate_tasks returns each task's
\* result has been appended to the output file exactly once, none is left
\* in the unsaved buffer, and completed = success_count + skipped_count +
\* error_count = number of tasks.
C28_EveryResultSavedOnce ==
    (pc = "return" /\ fn = "grade_fuzzy_queries.evaluate_tasks") =>
        /\ completed = success_count + skipped_count + error_count
        /\ completed = Len(args.tasks)
        /\ args.output_path =>
              /\ unsaved_results = <<>>
              /\ Len(output_file) = Len(args.tasks)
              /\ \A t \in DOMAIN task_pc :
                    /\ TimesWritten(t) = 1
                    /\ \E i \in 1..Len(output_file) : output_file[i] = results[t]

\* two tasks that complete in reverse order with a save_interval that is
\* never reached: both are written by the save of the last completion
C28_Witness ==
    /\ pc = "return"
    /\ fn = "grade_fuzzy_queries.evaluate_tasks"
    /\ args.output_path
    /\ args.save_interval = 3
    /\ completion_order = <<2, 1>>
    /\ output_file = <<results[2], results[1]>>
    /\ results[1].status = "success"
    /\ results[2].status = "error"

(***************************************************************************)
(* Agreement of the NDCG implementations (SpecNdcg)                        *)
(***************************************************************************)
\* the valid_results of evaluate_trace_two_pronged whose three score lists
\* are the score_pct values of store_scores
AsTwoProngedResults(store_scores) ==
    [i \in 1..Len(store_scores) |->
        [fuzzy_evaluation      |-> [score_pct |-> store_scores[i].score_pct],
         structured_evaluation |-> [score_pct |-> store_scores[i].score_pct],
         combined_score        |-> store_scores[i].score_pct]]

\* C29: the three NDCG implementations agree: for every list of score_pct
\* values in [0, 100], calculate_ndcg(scores, k=None), the inline
\* computation of fuzzy_query_eval.evaluate_trace and the inline
\* computation of evaluate_trace_two_pronged return the same value,
\* all-zero lists included.
C29_NdcgImplementationsAgree ==
    (Returned /\ fn = "calculate_ndcg" /\ args.k = <<>> /\ args.store_scores # <<>>) =>
        LET inline == evaluate_trace(args.store_scores)
            two_pronged == evaluate_trace_two_pronged(AsTwoProngedResults(args.store_scores))
        IN  /\ ~Raised(ret) /\ ~Raised(inline) /\ ~Raised(two_pronged)
            /\ inline.ndcg = ret.ndcg
            /\ two_pronged.ndcg_fuzzy = ret.ndcg
            /\ two_pronged.ndcg_structured = ret.ndcg
            /\ two_pronged.ndcg_combined = ret.ndcg

\* a list out of order, on which the three return the same value below 1.0
C29_Witness ==
    /\ Returned
    /\ fn = "calculate_ndcg"
    /\ args.k = <<>>
    /\ RankedScores = <<5000, 0, 10000>>
    /\ ret.ndcg > 0
    /\ ret.ndcg < 10000
    /\ evaluate_trace(args.store_scores).ndcg = ret.ndcg
    /\ evaluate_trace_two_pronged(AsTwoProngedResults(args.store_scores)).ndcg_fuzzy = ret.ndcg

\* ---------------------------------------------------------------------
\* StructuredQueryStoreEvaluator: per-category scores and NDCG
\* ---------------------------------------------------------------------

\* Python values of different types that meet in one parameter
PyInt(n) == [int |-> n]

PyBool(b) == [bool |-> b]

\* the truth value an `if` gives a Python value: True == 1, False == 0
PyTruthy(v) == IF "bool" \in DOMAIN v THEN v.bool ELSE v.int # 0

\* the number a Python value counts as: bool is a subclass of int
PyNumber(v) == IF "bool" \in DOMAIN v THEN (IF v.bool THEN 1 ELSE 0) ELSE v.int

\* the facets of a query category: (check column, weight) pairs
score_facet_to_category_mapping ==
    [main_dish___cuisine           |-> <<<<"is_serving_matched", 3>>,
                                         <<"is_primary_serving", 3>>,
                                         <<"is_serving_more_than_three_items", 1>>>>,
     dietary_restrictions          |-> <<<<"is_dietary_serving", 1>>>>,
     restaurant___store_name       |-> <<<<"is_exact_restaurant", 3>>,
                                         <<"is_similar_restaurant", 2>>>>,
     flavor                        |-> <<<<"is_flavor_match", 1>>>>,
     preparation_style             |-> <<<<"is_prep_style_matched", 1>>>>,
     portion_size                  |-> <<<<"is_portion_matched", 1>>>>,
     groups                        |-> <<<<"is_group_matched", 1>>>>,
     ingredients                   |-> <<<<"is_ingredient_present", 1>>>>,
     location                      |-> <<<<"is_nearby", 1>>>>,
     speed                         |-> <<<<"is_fast_delivery", 1>>,
                                         <<"is_fast_delivery_check", 2>>>>,
     quality___rating              |-> <<<<"is_top_rated", 1>>,
                                         <<"is_overall_rating_good", 1>>>>,
     price                         |-> <<<<"is_price_match", 1>>>>,
     open_hour_check               |-> <<<<"is_store_open", 1>>>>,
     quality_rating_larger_than_45 |-> <<<<"is_overall_rating_good", 1>>>>]

\* all_categories = list(score_facet_to_category_mapping.keys())
all_categories == DOMAIN score_facet_to_category_mapping

\* the checks of a category
MemberChecks(cat) ==
    {score_facet_to_category_mapping[cat][i][1] :
        i \in 1..Len(score_facet_to_category_mapping[cat])}

\* the check columns of a judged row
CheckColumns == UNION {MemberChecks(cat) : cat \in all_categories}

\* the answers a check column holds
CheckColumnAnswers == {"Yes", "No", "NA to Query"}

\* the judged rows: at most MaxYes checks answered 'Yes', at most one check
\* not applicable to the query, every other check answered 'No'
JudgedRows ==
    {[col \in CheckColumns |->
        IF col \in yes THEN "Yes"
        ELSE IF col \in na THEN "NA to Query"
        ELSE "No"] :
        yes \in SubsetsUpTo(CheckColumns, MaxYes),
        na \in {{}, {"is_serving_matched"}, {"is_similar_restaurant"}}}

\* a score in which a check not applicable to the query counts as passed
map_score_counting_not_applicable(row, cat) ==
    LET facets == score_facet_to_category_mapping[cat]
        sum_score[i \in 0..Len(facets)] ==
            IF i = 0 THEN 0 ELSE sum_score[i - 1] + facets[i][2]
        true_score[i \in 0..Len(facets)] ==
            IF i = 0 THEN 0
            ELSE true_score[i - 1]
                 + (IF row[facets[i][1]] # "No" THEN 1 ELSE 0) * facets[i][2]
    IN  Rat(true_score[Len(facets)] * 100, sum_score[Len(facets)])

\* map_score(row, cat): true_score / sum_score * 100 over the facets of cat
map_score(row, cat) ==
    LET facets == score_facet_to_category_mapping[cat]
        sum_score[i \in 0..Len(facets)] ==
            IF i = 0 THEN 0 ELSE sum_score[i - 1] + facets[i][2]
        true_score[i \in 0..Len(facets)] ==
            IF i = 0 THEN 0
            ELSE true_score[i - 1]
                 + (IF row[facets[i][1]] = "Yes" THEN 1 ELSE 0) * facets[i][2]
    IN  Rat(true_score[Len(facets)] * 100, sum_score[Len(facets)])

\* the parameters of _compute_ndcg_by_query_category after self, in order
CategoryParameters ==
    <<"df", "category_col", "k", "is_join_category", "sot_query_scraping_path">>

\* their defaults: k=5, is_join_category=True, sot_query_scraping_path=None
CategoryDefaults ==
    [k |-> PyInt(5), is_join_category |-> PyBool(TRUE),
     sot_query_scraping_path |-> None]

\* Python binds positional arguments to the parameters in order and gives
\* the parameters left over their defaults
bind_positional(positional) ==
    [p \in {CategoryParameters[i] : i \in 1..Len(CategoryParameters)} |->
        LET i == CHOOSE j \in 1..Len(CategoryParameters) : CategoryParameters[j] = p
        IN  IF i <= Len(positional) THEN positional[i] ELSE CategoryDefaults[p]]

\* _compute_ndcg_by_query_category: all_categories is assigned only when
\* is_join_category is true; every category is cut off at k by
\* compute_wpr_at_k and reported in the column 'ndcg@5'
compute_ndcg_by_query_category(params) ==
    IF ~PyTruthy(params["is_join_category"]) THEN Raise("NameError")
    ELSE [params           |-> params,
          compute_wpr_at_k |-> [cat \in all_categories |-> [k |-> params["k"]]],
          column           |-> "ndcg@5"]

\* the dayparts of the rows of df
Dayparts == {<<>>, <<"lunch">>, <<"lunch", "dinner">>}

\* the frame of one daypart
DaypartFrame(dp) == [df |-> dp]

\* _compute_metrics: the per-category frames, overall and by daypart
compute_metrics(k, category_col, dayparts) ==
    IF category_col = None THEN [category_frames |-> <<>>]
    ELSE LET is_join_category == PyBool(category_col = Str("query_category"))
         IN  IF category_col = Str("query_category")
             THEN [category_frames |->
                    <<compute_ndcg_by_query_category(
                        bind_positional(<<DaypartFrame("overall"), category_col,
                                          is_join_category>>))>>
                    \o [i \in 1..Len(dayparts) |->
                        compute_ndcg_by_query_category(
                            bind_positional(<<DaypartFrame(dayparts[i]), category_col,
                                              is_join_category>>))]]
             ELSE [category_frames |-> <<>>]

InitCategory ==
    /\ pc = "call"
    /\ ret = NoRet
    /\ Synchronous
    /\ \/ /\ fn = "map_score"
          /\ args \in [row : JudgedRows, cat : all_categories]
       \/ /\ fn = "_compute_ndcg_by_query_category"
          /\ args \in [k : {1, 5, 10}, is_join_category : BOOLEAN]
       \/ /\ fn = "_compute_metrics"
          /\ args \in [k : {1, 5, 10},
                       category_col : {None, Str("query_category"), Str("vertical")},
                       dayparts : Dayparts]

MapScore ==
    /\ pc = "call"
    /\ fn = "map_score"
    /\ ret' = [relevance_score |-> map_score(args.row, args.cat)]
    /\ pc' = "return"
    /\ UNCHANGED <<fn, args, sync_unchanged>>

ComputeNdcgByQueryCategory ==
    /\ pc = "call"
    /\ fn = "_compute_ndcg_by_query_category"
    /\ ret' = compute_ndcg_by_query_category(
                bind_positional(<<DaypartFrame("overall"), Str("query_category"),
                                  PyInt(args.k), PyBool(args.is_join_category)>>))
    /\ pc' = "return"
    /\ UNCHANGED <<fn, args, sync_unchanged>>

ComputeMetrics ==
    /\ pc = "call"
    /\ fn = "_compute_metrics"
    /\ ret' = compute_metrics(args.k, args.category_col, args.dayparts)
    /\ pc' = "return"
    /\ UNCHANGED <<fn, args, sync_unchanged>>

NextCategory == MapScore \/ ComputeNdcgByQueryCategory \/ ComputeMetrics

SpecCategory == InitCategory /\ [][NextCategory]_vars

\* the weight of a check in a category
MemberWeight(cat, col) ==
    LET facets == score_facet_to_category_mapping[cat]
    IN  facets[CHOOSE i \in 1..Len(facets) : facets[i][1] = col][2]

RECURSIVE MemberWeightSum(_, _)
MemberWeightSum(cat, cols) ==
    IF cols = {} THEN 0
    ELSE LET col == CHOOSE c \in cols : TRUE
         IN  MemberWeight(cat, col) + MemberWeightSum(cat, cols \ {col})

\* C21: map_score depends only on the category's member checks: it equals
\* 100 * (sum of the weights of the member checks answered 'Yes') / (sum of
\* the weights of all member checks), and changing the answer of a check
\* that is not a member of the category leaves it unchanged.
C21_MapScoreOfMemberChecksOnly ==
    (Returned /\ fn = "map_score") =>
        LET members == MemberChecks(args.cat)
            yes == {col \in members : args.row[col] = "Yes"}
        IN  /\ ret.relevance_score =
                 Rat(100 * MemberWeightSum(args.cat, yes),
                     MemberWeightSum(args.cat, members))
            /\ \A col \in DOMAIN args.row \ members : \A a \in CheckColumnAnswers :
                 map_score([args.row EXCEPT ![col] = a], args.cat) = ret.relevance_score

\* a category of three checks: one passed, one not applicable to the query
\* and one failed, beside a passed check of another category
C21_Witness ==
    /\ Returned
    /\ fn = "map_score"
    /\ args.cat = "main_dish___cuisine"
    /\ args.row["is_serving_matched"] = "NA to Query"
    /\ args.row["is_primary_serving"] = "Yes"
    /\ args.row["is_serving_more_than_three_items"] = "No"
    /\ args.row["is_nearby"] = "Yes"
    /\ ret.relevance_score = Rat(300, 7)

\* C30: when _compute_metrics is called with cutoff k and category_col =
\* 'query_category', every per-category NDCG of
\* _compute_ndcg_by_query_category is computed with that same k, and the
\* is_join_category flag it passes is the value of the is_join_category
\* parameter.
C30_CategoryNdcgUsesSameCutoff ==
    (Returned /\ fn = "_compute_metrics" /\ args.category_col = Str("query_category")) =>
        \A i \in 1..Len(ret.category_frames) :
            LET frame == ret.category_frames[i]
            IN  /\ ~Raised(frame)
                /\ \A cat \in all_categories :
                     PyNumber(frame.compute_wpr_at_k[cat].k) = args.k
                /\ PyTruthy(frame.params["is_join_category"]) =
                     (args.category_col = Str("query_category"))

====
